---- MODULE Spec2Model ----
(***************************************************************************)
(* Runtime schema validation engine (src/8/schema.py).                     *)
(*                                                                         *)
(* Python values are tagged records, strings are TLA+ strings, a validator *)
(* tree is a record per node, and validate is a recursive operator that    *)
(* returns the ValidationResult it builds, or the exception that escaped.  *)
(***************************************************************************)
EXTENDS Integers, Sequences, FiniteSets, TLC

(***************************************************************************)
(* Bounds of the model.                                                    *)
(***************************************************************************)
\* nesting depth of the validator trees built
MaxDepth == 2
\* length of the lists validate is called with
MaxLen == 2
\* builder settings, over all nodes of a tree, that differ from __init__'s
MaxSettings == 2

(***************************************************************************)
(* Python values.                                                          *)
(***************************************************************************)
PyNone == [t |-> "NoneType"]
PyStr(s) == [t |-> "str", s |-> s]
PyInt(n) == [t |-> "int", n |-> n]
PyBool(b) == [t |-> "bool", b |-> b]
\* a float is held in halves: PyFloat(3) is 1.5
PyFloat(h) == [t |-> "float", h |-> h]
PyList(items) == [t |-> "list", items |-> items]
\* a dict is its entries in insertion order, keys pairwise different
PyDict(entries) == [t |-> "dict", entries |-> entries]
\* a datetime is held as a day number and the second of the day
PyDateTime(day, sec) == [t |-> "datetime", day |-> day, sec |-> sec]
PyTuple(items) == [t |-> "tuple", items |-> items]

IsStr(v) == v.t = "str"
\* a faulty test that takes no value for a bool
IsBool_never(v) == FALSE
IsBool(v) == v.t = "bool"
\* isinstance(value, (int, float)): bool is a subclass of int
IsIntOrFloat(v) == v.t \in {"int", "bool", "float"}
IsDict(v) == v.t = "dict"
IsList(v) == v.t = "list"

\* twice the numeric value of an int, bool or float
Twice(v) ==
  CASE v.t = "int" -> 2 * v.n
    [] v.t = "bool" -> IF v.b THEN 2 ELSE 0
    [] v.t = "float" -> v.h

RECURSIVE PyEq(_, _)
\* Python ==
PyEq(a, b) ==
  IF IsIntOrFloat(a) /\ IsIntOrFloat(b) THEN Twice(a) = Twice(b)
  ELSE IF a.t # b.t THEN FALSE
  ELSE IF a.t \in {"list", "tuple"} THEN
    /\ Len(a.items) = Len(b.items)
    /\ \A i \in 1..Len(a.items) : PyEq(a.items[i], b.items[i])
  ELSE IF a.t = "dict" THEN
    /\ Len(a.entries) = Len(b.entries)
    /\ \A i \in 1..Len(a.entries) : \E j \in 1..Len(b.entries) :
         /\ PyEq(a.entries[i].k, b.entries[j].k)
         /\ PyEq(a.entries[i].v, b.entries[j].v)
  ELSE a = b

\* bool(value)
Truthy(v) ==
  CASE v.t = "NoneType" -> FALSE
    [] v.t = "str" -> v.s # ""
    [] v.t \in {"int", "bool", "float"} -> Twice(v) # 0
    [] v.t \in {"list", "tuple"} -> v.items # <<>>
    [] v.t = "dict" -> v.entries # <<>>
    [] OTHER -> TRUE

RECURSIVE Hashable(_)
\* hash(value) does not raise TypeError
Hashable(v) ==
  CASE v.t \in {"list", "dict"} -> FALSE
    [] v.t = "tuple" -> \A i \in 1..Len(v.items) : Hashable(v.items[i])
    [] OTHER -> TRUE

\* value in list
PyIn(v, items) == \E i \in 1..Len(items) : PyEq(v, items[i])

\* key in dict
HasKey(d, k) == \E i \in 1..Len(d.entries) : PyEq(d.entries[i].k, k)
\* dict[key], for a key the dict has
GetItem(d, k) ==
  LET i == CHOOSE j \in 1..Len(d.entries) : PyEq(d.entries[j].k, k)
  IN d.entries[i].v

(***************************************************************************)
(* Strings.                                                                *)
(***************************************************************************)
CharAt(s, i) == SubSeq(s, i, i)
Digits == {"0", "1", "2", "3", "4", "5", "6", "7", "8", "9"}
\* str.isspace over the characters the model uses
Whitespace == {" "}
RECURSIVE Lower(_)
\* str.lower, over the capitals the model uses
Lower(s) ==
  LET LowerOf(c) == CASE c = "A" -> "a" [] c = "B" -> "b" [] c = "J" -> "j" [] OTHER -> c
  IN IF s = "" THEN "" ELSE LowerOf(CharAt(s, 1)) \o Lower(SubSeq(s, 2, Len(s)))

RECURSIVE Strip(_)
\* str.strip
Strip(s) ==
  IF s # "" /\ CharAt(s, 1) \in Whitespace THEN Strip(SubSeq(s, 2, Len(s)))
  ELSE IF s # "" /\ CharAt(s, Len(s)) \in Whitespace THEN Strip(SubSeq(s, 1, Len(s) - 1))
  ELSE s

RECURSIVE JoinStr(_, _)
\* sep.join(parts) for a sequence of strings
JoinStr(sep, parts) ==
  IF parts = <<>> THEN ""
  ELSE IF Len(parts) = 1 THEN parts[1]
  ELSE parts[1] \o sep \o JoinStr(sep, Tail(parts))

AllDigits(s) == s # "" /\ \A i \in 1..Len(s) : CharAt(s, i) \in Digits
RECURSIVE ToInt(_)
\* int(s) for a string of digits
ToInt(s) ==
  LET DigitVal(c) ==
        CASE c = "0" -> 0 [] c = "1" -> 1 [] c = "2" -> 2 [] c = "3" -> 3 [] c = "4" -> 4
          [] c = "5" -> 5 [] c = "6" -> 6 [] c = "7" -> 7 [] c = "8" -> 8 [] c = "9" -> 9
  IN IF s = "" THEN 0
     ELSE 10 * ToInt(SubSeq(s, 1, Len(s) - 1)) + DigitVal(CharAt(s, Len(s)))

RECURSIVE Split(_, _)
\* s.split(sep) for a one-character separator
Split(s, sep) ==
  IF \A i \in 1..Len(s) : CharAt(s, i) # sep THEN <<s>>
  ELSE LET i == CHOOSE j \in 1..Len(s) :
                  CharAt(s, j) = sep /\ \A k \in 1..(j - 1) : CharAt(s, k) # sep
       IN <<SubSeq(s, 1, i - 1)>> \o Split(SubSeq(s, i + 1, Len(s)), sep)

\* str(value) as the f-strings and str() of the validators produce it
PyRepr(v) ==
  CASE v.t = "NoneType" -> "None"
    [] v.t = "str" -> v.s
    [] v.t = "int" -> ToString(v.n)
    [] v.t = "bool" -> IF v.b THEN "True" ELSE "False"
    [] v.t = "float" -> ToString(v.h \div 2) \o (IF v.h % 2 = 0 THEN ".0" ELSE ".5")
    [] OTHER -> "<" \o v.t \o ">"

(***************************************************************************)
(* Result model.                                                           *)
(***************************************************************************)
ERROR == "error"
WARNING == "warning"

\* a faulty ValidationError that loses the code it is given
ValidationError_without_code(field, message, value, level, code) ==
  [field |-> field, message |-> message, value |-> value, level |-> level, code |-> ""]

ValidationError(field, message, value, level, code) ==
  [field |-> field, message |-> message, value |-> value, level |-> level, code |-> code]

\* ValidationResult(is_valid) after __post_init__
ValidationResult(is_valid) ==
  [is_valid |-> is_valid, errors |-> <<>>, warnings |-> <<>>, data |-> PyNone]

\* a faulty add_error that appends the error and leaves is_valid as it was
add_error_keeps_is_valid(result, field, message, value, code) ==
  [result EXCEPT !.errors = Append(@, ValidationError(field, message, value, ERROR, code))]

\* a faulty add_error that drops the errors found before
add_error_last_only(result, field, message, value, code) ==
  [result EXCEPT !.is_valid = FALSE,
                 !.errors = <<ValidationError(field, message, value, ERROR, code)>>]

\* a faulty add_error that keeps the first error only
add_error_first_only(result, field, message, value, code) ==
  [result EXCEPT !.is_valid = FALSE,
                 !.errors = IF @ = <<>> THEN <<ValidationError(field, message, value, ERROR, code)>>
                            ELSE @]

add_error(result, field, message, value, code) ==
  [result EXCEPT !.errors = Append(@, ValidationError(field, message, value, ERROR, code)),
                 !.is_valid = FALSE]

\* a faulty add_warning that also marks the result invalid
add_warning_invalidates(result, field, message, value, code) ==
  [result EXCEPT !.warnings = Append(@, ValidationError(field, message, value, WARNING, code)),
                 !.is_valid = FALSE]

add_warning(result, field, message, value, code) ==
  [result EXCEPT !.warnings = Append(@, ValidationError(field, message, value, WARNING, code))]

(***************************************************************************)
(* What a call of validate comes back with: the ValidationResult it        *)
(* returned, or the exception that escaped it.  calls lists, in order, the *)
(* validate calls and the calls of user-supplied functions made on the way.*)
(***************************************************************************)
Returned(result, calls) == [raised |-> FALSE, result |-> result, calls |-> calls]
Raised(exc, calls) == [raised |-> TRUE, exc |-> exc, calls |-> calls]
ValidateCall(kind, field) == [op |-> "validate", kind |-> kind, field |-> field]
UserCall(fn, field) == [op |-> "call", fn |-> fn, field |-> field]

(***************************************************************************)
(* User-supplied functions, by name.                                       *)
(***************************************************************************)
PyFunction(name) == [t |-> "function", name |-> name]

\* a transform: "lower" is str.lower, "strip" is str.strip, "double" is
\* lambda x: x * 2 and "boom" raises ValueError("boom"); ok is FALSE when
\* the call raised
ApplyTransform(f, v) ==
  CASE f.name = "lower" ->
         IF IsStr(v) THEN [ok |-> TRUE, value |-> PyStr(Lower(v.s))]
         ELSE [ok |-> FALSE, text |-> "'" \o v.t \o "' object has no attribute 'lower'"]
    [] f.name = "strip" ->
         IF IsStr(v) THEN [ok |-> TRUE, value |-> PyStr(Strip(v.s))]
         ELSE [ok |-> FALSE, text |-> "'" \o v.t \o "' object has no attribute 'strip'"]
    [] f.name = "double" ->
         CASE v.t = "str" -> [ok |-> TRUE, value |-> PyStr(v.s \o v.s)]
           [] v.t = "int" -> [ok |-> TRUE, value |-> PyInt(2 * v.n)]
           [] v.t = "float" -> [ok |-> TRUE, value |-> PyFloat(2 * v.h)]
           [] v.t = "bool" -> [ok |-> TRUE, value |-> PyInt(Twice(v))]
           [] OTHER -> [ok |-> FALSE, text |-> "unsupported operand"]
    [] f.name = "boom" -> [ok |-> FALSE, text |-> "boom"]

\* a validation function of a CustomValidator
ApplyPredicate(f, v) ==
  CASE f.name = "always_true" -> [ok |-> TRUE, value |-> PyBool(TRUE)]
    [] f.name = "always_false" -> [ok |-> TRUE, value |-> PyBool(FALSE)]
    [] f.name = "is_str" -> [ok |-> TRUE, value |-> PyBool(IsStr(v))]
    [] f.name = "message" -> [ok |-> TRUE, value |-> PyStr("bad value")]
    [] f.name = "no_message" -> [ok |-> TRUE, value |-> PyStr("")]
    [] f.name = "pair_false" ->
         [ok |-> TRUE, value |-> PyTuple(<<PyBool(FALSE), PyStr("bad pair")>>)]
    [] f.name = "pair_false_empty" ->
         [ok |-> TRUE, value |-> PyTuple(<<PyBool(FALSE), PyStr("")>>)]
    [] f.name = "pair_true" ->
         [ok |-> TRUE, value |-> PyTuple(<<PyBool(TRUE), PyStr("ignored")>>)]
    [] f.name = "number" -> [ok |-> TRUE, value |-> PyInt(1)]
    [] f.name = "nothing" -> [ok |-> TRUE, value |-> PyNone]
    [] f.name = "boom" -> [ok |-> FALSE, text |-> "boom"]

(***************************************************************************)
(* Regular expressions the model knows, matched as re.match matches them.  *)
(***************************************************************************)
DigitsPattern == "^\\d+$"
DigitPrefixPattern == "\\d+"
EmailPattern == "^[^\\s@]+@[^\\s@]+\\.[^\\s@]+$"
UrlPattern == "^https?://.+"

\* re.search in the place of re.match: the pattern may match anywhere in s
re_search(pattern, s) ==
  CASE pattern = DigitPrefixPattern -> \E i \in 1..Len(s) : CharAt(s, i) \in Digits
    [] OTHER -> pattern = DigitsPattern /\ AllDigits(s)

\* re.match(pattern, s) is not None, for the patterns in use
re_match(pattern, s) ==
  LET \* [^\s@]+ matches all of x
      NoSpaceNoAt(x) ==
        x # "" /\ \A i \in 1..Len(x) : CharAt(x, i) \notin (Whitespace \cup {"@"})
  IN
  CASE pattern = DigitsPattern ->
         \* $ matches at the end and before a newline at the end
         \/ AllDigits(s)
         \/ Len(s) > 1 /\ CharAt(s, Len(s)) = "\n" /\ AllDigits(SubSeq(s, 1, Len(s) - 1))
    [] pattern = DigitPrefixPattern -> s # "" /\ CharAt(s, 1) \in Digits
    [] pattern = EmailPattern ->
         \E i \in 1..Len(s) :
           /\ CharAt(s, i) = "@"
           /\ NoSpaceNoAt(SubSeq(s, 1, i - 1))
           /\ \E j \in (i + 1)..Len(s) :
                /\ CharAt(s, j) = "."
                /\ NoSpaceNoAt(SubSeq(s, i + 1, j - 1))
                /\ NoSpaceNoAt(SubSeq(s, j + 1, Len(s)))
    [] pattern = UrlPattern ->
         \/ Len(s) > 7 /\ SubSeq(s, 1, 7) = "http://"
         \/ Len(s) > 8 /\ SubSeq(s, 1, 8) = "https://"

(***************************************************************************)
(* Validator nodes.  The record of a node holds the attributes its         *)
(* __init__ sets; Optional attributes hold PyNone until a builder sets     *)
(* them.                                                                   *)
(***************************************************************************)
\* Validator.__init__
BaseAttrs ==
  [custom_message |-> PyNone, field_name |-> PyNone, required |-> TRUE, transform |-> PyNone]

\* f @@ g without the TLC module's operator, for two records
Extend(base, extra) ==
  [n \in DOMAIN base \cup DOMAIN extra |-> IF n \in DOMAIN extra THEN extra[n] ELSE base[n]]

StringValidator ==
  Extend(BaseAttrs,
         [kind |-> "String", min_length |-> PyNone, max_length |-> PyNone, pattern |-> PyNone,
          allowed_values |-> PyNone, trim |-> FALSE, case_sensitive |-> TRUE])

NumberValidator ==
  Extend(BaseAttrs,
         [kind |-> "Number", min_value |-> PyNone, max_value |-> PyNone, integer_only |-> FALSE,
          allowed_values |-> PyNone])

BooleanValidator ==
  Extend(BaseAttrs,
         [kind |-> "Boolean",
          truthy_values |-> <<PyBool(TRUE), PyStr("true"), PyStr("1"), PyInt(1), PyStr("yes"),
                              PyStr("on")>>,
          falsy_values |-> <<PyBool(FALSE), PyStr("false"), PyStr("0"), PyInt(0), PyStr("no"),
                             PyStr("off"), PyStr("")>>])

DateValidator ==
  Extend(BaseAttrs,
         [kind |-> "Date", format |-> PyNone, min_date |-> PyNone, max_date |-> PyNone])

ObjectValidator(schema) ==
  Extend(BaseAttrs,
         [kind |-> "Object", schema |-> schema, strict |-> FALSE, allow_unknown |-> TRUE])

ArrayValidator(item_validator) ==
  Extend(BaseAttrs,
         [kind |-> "Array", item_validator |-> item_validator, min_length |-> PyNone,
          max_length |-> PyNone, unique |-> FALSE])

IPAddressValidator(allow_ipv4, allow_ipv6) ==
  Extend(BaseAttrs, [kind |-> "IPAddress", allow_ipv4 |-> allow_ipv4, allow_ipv6 |-> allow_ipv6])

PhoneNumberValidator(country_code) ==
  Extend(BaseAttrs, [kind |-> "PhoneNumber", country_code |-> country_code])

CustomValidator(validation_func) ==
  Extend(BaseAttrs, [kind |-> "Custom", validation_func |-> validation_func])

\* self._custom_message or default
MessageOr(self, default) ==
  IF Truthy(self.custom_message) THEN self.custom_message.s ELSE default

\* a faulty gate that takes only None, not the empty string, for absent
handle_optional_none_only(self, value, field_name) ==
  IF value = PyNone THEN
    IF ~self.required THEN [done |-> TRUE, result |-> ValidationResult(TRUE)]
    ELSE [done |-> TRUE,
          result |-> add_error(ValidationResult(FALSE), field_name,
                               MessageOr(self, "Field '" \o field_name \o "' is required"),
                               value, "REQUIRED")]
  ELSE [done |-> FALSE]

\* a faulty gate that reports an absent value whether or not it is required
handle_optional_always_required(self, value, field_name) ==
  IF value = PyNone \/ PyEq(value, PyStr("")) THEN
    [done |-> TRUE,
     result |-> add_error(ValidationResult(FALSE), field_name,
                          MessageOr(self, "Field '" \o field_name \o "' is required"),
                          value, "REQUIRED")]
  ELSE [done |-> FALSE]

\* Validator._handle_optional: done is FALSE where the code returns None
handle_optional(self, value, field_name) ==
  IF value = PyNone \/ PyEq(value, PyStr("")) THEN
    IF ~self.required THEN [done |-> TRUE, result |-> ValidationResult(TRUE)]
    ELSE [done |-> TRUE,
          result |-> add_error(ValidationResult(FALSE), field_name,
                               MessageOr(self, "Field '" \o field_name \o "' is required"),
                               value, "REQUIRED")]
  ELSE [done |-> FALSE]

(***************************************************************************)
(* Leaf validators.                                                        *)
(***************************************************************************)
\* a faulty transform step that swallows the exception of the transform and
\* goes on with the value as it was
TransformStep_swallows(self, value) ==
  IF Truthy(self.transform) /\ ApplyTransform(self.transform, value).ok
  THEN ApplyTransform(self.transform, value)
  ELSE [ok |-> TRUE, value |-> value]

\* the transform step of StringValidator.validate and NumberValidator.validate
TransformStep(self, value) ==
  IF Truthy(self.transform) THEN ApplyTransform(self.transform, value)
  ELSE [ok |-> TRUE, value |-> value]
TransformCalls(self, field_name) ==
  IF Truthy(self.transform) THEN <<UserCall(self.transform.name, field_name)>> ELSE <<>>

\* map(str, values), and the strings of a list of str
StrAll(values) == [i \in 1..Len(values) |-> PyRepr(values[i])]

StringValidator_validate(self, value, field_name) ==
  LET calls == <<ValidateCall("String", field_name)>>
      optional_result == handle_optional(self, value, field_name)
      result == ValidationResult(TRUE)
  IN IF optional_result.done THEN Returned(optional_result.result, calls)
     ELSE IF ~IsStr(value) THEN
       Returned(add_error(result, field_name, MessageOr(self, "Value must be a string"),
                          value, "TYPE_ERROR"), calls)
     ELSE
       LET transformed == TransformStep(self, value)
           calls1 == calls \o TransformCalls(self, field_name)
       IN IF ~transformed.ok THEN
            Returned(add_error(result, field_name, "Transformation failed: " \o transformed.text,
                               value, "TRANSFORM_ERROR"), calls1)
          ELSE
            LET value1 == IF self.trim THEN PyStr(Strip(transformed.value.s))
                          ELSE transformed.value
                r1 == IF self.min_length # PyNone /\ Len(value1.s) < self.min_length.n
                      THEN add_error(result, field_name,
                                     "String must be at least " \o PyRepr(self.min_length)
                                       \o " characters long", value1, "MIN_LENGTH")
                      ELSE result
                r2 == IF self.max_length # PyNone /\ Len(value1.s) > self.max_length.n
                      THEN add_error(r1, field_name,
                                     "String must be at most " \o PyRepr(self.max_length)
                                       \o " characters long", value1, "MAX_LENGTH")
                      ELSE r1
                r3 == IF self.pattern # PyNone /\ ~re_match(self.pattern.s, value1.s)
                      THEN add_error(r2, field_name,
                                     "String must match pattern: " \o self.pattern.s,
                                     value1, "PATTERN_MISMATCH")
                      ELSE r2
                check_value == IF self.case_sensitive THEN value1 ELSE PyStr(Lower(value1.s))
                check_values == IF self.allowed_values = PyNone THEN <<>>
                                ELSE IF self.case_sensitive THEN self.allowed_values.items
                                ELSE [i \in 1..Len(self.allowed_values.items) |->
                                       PyStr(Lower(self.allowed_values.items[i].s))]
                r4 == IF self.allowed_values # PyNone /\ ~PyIn(check_value, check_values)
                      THEN add_error(r3, field_name,
                                     "Value must be one of: "
                                       \o JoinStr(", ", StrAll(self.allowed_values.items)),
                                     value1, "INVALID_VALUE")
                      ELSE r3
            IN Returned(r4, calls1)

NumberValidator_validate(self, value, field_name) ==
  LET calls == <<ValidateCall("Number", field_name)>>
      optional_result == handle_optional(self, value, field_name)
      result == ValidationResult(TRUE)
  IN IF optional_result.done THEN Returned(optional_result.result, calls)
     ELSE IF ~IsIntOrFloat(value) \/ IsBool(value) THEN
       Returned(add_error(result, field_name, MessageOr(self, "Value must be a number"),
                          value, "TYPE_ERROR"), calls)
     ELSE
       LET transformed == TransformStep(self, value)
           calls1 == calls \o TransformCalls(self, field_name)
       IN IF ~transformed.ok THEN
            Returned(add_error(result, field_name, "Transformation failed: " \o transformed.text,
                               value, "TRANSFORM_ERROR"), calls1)
          ELSE
            LET value1 == transformed.value
                r1 == IF self.integer_only /\ value1.t \notin {"int", "bool"}
                      THEN add_error(result, field_name, "Value must be an integer",
                                     value1, "INTEGER_REQUIRED")
                      ELSE result
                r2 == IF self.min_value # PyNone /\ Twice(value1) < Twice(self.min_value)
                      THEN add_error(r1, field_name,
                                     "Number must be at least " \o PyRepr(self.min_value),
                                     value1, "MIN_VALUE")
                      ELSE r1
                r3 == IF self.max_value # PyNone /\ Twice(value1) > Twice(self.max_value)
                      THEN add_error(r2, field_name,
                                     "Number must be at most " \o PyRepr(self.max_value),
                                     value1, "MAX_VALUE")
                      ELSE r2
                r4 == IF self.allowed_values # PyNone /\ ~PyIn(value1, self.allowed_values.items)
                      THEN add_error(r3, field_name,
                                     "Value must be one of: "
                                       \o JoinStr(", ", StrAll(self.allowed_values.items)),
                                     value1, "INVALID_VALUE")
                      ELSE r3
            IN Returned(r4, calls1)

BooleanValidator_validate(self, value, field_name) ==
  LET calls == <<ValidateCall("Boolean", field_name)>>
      optional_result == handle_optional(self, value, field_name)
      result == ValidationResult(TRUE)
  IN IF optional_result.done THEN Returned(optional_result.result, calls)
     ELSE IF IsBool(value) THEN Returned(result, calls)
     ELSE IF PyIn(value, self.truthy_values) THEN Returned(result, calls)
     ELSE IF PyIn(value, self.falsy_values) THEN Returned(result, calls)
     ELSE Returned(add_error(result, field_name,
                             MessageOr(self, "Value must be a boolean or convertible to boolean"),
                             value, "TYPE_ERROR"), calls)

(***************************************************************************)
(* datetime.strptime for the formats the validator knows.                  *)
(***************************************************************************)
DayNumber(y, m, d) == (y * 13 + m) * 32 + d

\* datetime.strptime(s, fmt); ok is FALSE where it raises ValueError
strptime(s, fmt) ==
  LET NoDate == [ok |-> FALSE]
      DaysInMonth(y, m) ==
        CASE m = 2 -> IF (y % 4 = 0 /\ y % 100 # 0) \/ y % 400 = 0 THEN 29 ELSE 28
          [] m \in {4, 6, 9, 11} -> 30
          [] OTHER -> 31
      \* one or two digits with a value in lo..hi
      NumField(x, lo, hi) == AllDigits(x) /\ Len(x) \in 1..2 /\ ToInt(x) \in lo..hi
      \* year, month and day strings to a date; the datetime constructor
      \* rejects year 0 and a day the month does not have
      MakeDate(ys, ms, ds, H, M, S) ==
        IF /\ AllDigits(ys) /\ Len(ys) = 4
           /\ NumField(ms, 1, 12)
           /\ NumField(ds, 1, 31)
           /\ ToInt(ys) >= 1
           /\ ToInt(ds) <= DaysInMonth(ToInt(ys), ToInt(ms))
        THEN [ok |-> TRUE,
              value |-> PyDateTime(DayNumber(ToInt(ys), ToInt(ms), ToInt(ds)),
                                   (H * 60 + M) * 60 + S)]
        ELSE NoDate
  IN
  CASE fmt = "%Y-%m-%d" ->
         LET p == Split(s, "-")
         IN IF Len(p) = 3 THEN MakeDate(p[1], p[2], p[3], 0, 0, 0) ELSE NoDate
    [] fmt = "%d/%m/%Y" ->
         LET p == Split(s, "/")
         IN IF Len(p) = 3 THEN MakeDate(p[3], p[2], p[1], 0, 0, 0) ELSE NoDate
    [] fmt = "%m/%d/%Y" ->
         LET p == Split(s, "/")
         IN IF Len(p) = 3 THEN MakeDate(p[3], p[1], p[2], 0, 0, 0) ELSE NoDate
    [] fmt = "%Y-%m-%d %H:%M:%S" ->
         \* a space in the format matches a run of spaces
         LET w == SelectSeq(Split(s, " "), LAMBDA part : part # "")
         IN IF Len(w) # 2 \/ CharAt(s, 1) = " " \/ CharAt(s, Len(s)) = " " THEN NoDate
            ELSE LET p == Split(w[1], "-")
                     q == Split(w[2], ":")
                 IN IF /\ Len(p) = 3 /\ Len(q) = 3
                       /\ NumField(q[1], 0, 23) /\ NumField(q[2], 0, 59) /\ NumField(q[3], 0, 59)
                    THEN MakeDate(p[1], p[2], p[3], ToInt(q[1]), ToInt(q[2]), ToInt(q[3]))
                    ELSE NoDate
    [] OTHER -> NoDate

DateValidator_validate(self, value, field_name) ==
  LET calls == <<ValidateCall("Date", field_name)>>
      optional_result == handle_optional(self, value, field_name)
      result == ValidationResult(TRUE)
      \* the for/else over the fallback formats: the first format that
      \* parses wins
      RECURSIVE TryFormats(_, _)
      TryFormats(s, fmts) ==
        IF fmts = <<>> THEN [ok |-> FALSE]
        ELSE IF strptime(s, Head(fmts)).ok THEN strptime(s, Head(fmts))
        ELSE TryFormats(s, Tail(fmts))
      \* dt.strftime('%Y-%m-%d')
      strftime(dt) ==
        LET RECURSIVE ZeroPad(_, _)
            ZeroPad(str, width) ==
              IF Len(str) >= width THEN str ELSE ZeroPad("0" \o str, width)
        IN ZeroPad(ToString(dt.day \div (32 * 13)), 4) \o "-"
             \o ZeroPad(ToString((dt.day \div 32) % 13), 2) \o "-"
             \o ZeroPad(ToString(dt.day % 32), 2)
      \* a < b for two datetimes
      DateBefore(a, b) == a.day < b.day \/ (a.day = b.day /\ a.sec < b.sec)
      parsed == IF value.t = "datetime" THEN [ok |-> TRUE, value |-> value]
                ELSE IF ~IsStr(value) THEN [ok |-> FALSE]
                ELSE IF Truthy(self.format) THEN strptime(value.s, self.format.s)
                ELSE TryFormats(value.s, <<"%Y-%m-%d", "%Y-%m-%d %H:%M:%S", "%d/%m/%Y",
                                           "%m/%d/%Y">>)
  IN IF optional_result.done THEN Returned(optional_result.result, calls)
     ELSE IF value.t # "datetime" /\ ~IsStr(value) THEN
       Returned(add_error(result, field_name,
                          MessageOr(self, "Value must be a date string or datetime object"),
                          value, "TYPE_ERROR"), calls)
     ELSE IF ~parsed.ok THEN
       Returned(add_error(result, field_name, "Invalid date format", value,
                          "DATE_FORMAT_ERROR"), calls)
     ELSE
       LET parsed_date == parsed.value
           r1 == IF self.min_date # PyNone /\ DateBefore(parsed_date, self.min_date)
                 THEN add_error(result, field_name, "Date must be after " \o strftime(self.min_date),
                                value, "MIN_DATE")
                 ELSE result
           r2 == IF self.max_date # PyNone /\ DateBefore(self.max_date, parsed_date)
                 THEN add_error(r1, field_name, "Date must be before " \o strftime(self.max_date),
                                value, "MAX_DATE")
                 ELSE r1
       IN Returned(r2, calls)

(***************************************************************************)
(* IP addresses and phone numbers.                                         *)
(***************************************************************************)
IPAddressValidator_validate(self, value, field_name) ==
  LET calls == <<ValidateCall("IPAddress", field_name)>>
      optional_result == handle_optional(self, value, field_name)
      result == ValidationResult(TRUE)
      allowed_types == (IF self.allow_ipv4 THEN <<"IPv4">> ELSE <<>>)
                         \o (IF self.allow_ipv6 THEN <<"IPv6">> ELSE <<>>)
      \* [0-9a-fA-F]{1,4}
      IsHextet(s) ==
        /\ Len(s) \in 1..4
        /\ \A i \in 1..Len(s) :
             CharAt(s, i) \in Digits \cup {"a", "b", "c", "d", "e", "f",
                                           "A", "B", "C", "D", "E", "F"}
      \* re.match of the dotted-quad pattern, each part
      \* 25[0-5]|2[0-4][0-9]|[01]?[0-9][0-9]?
      IPv4Match(s) ==
        LET p == Split(s, ".")
        IN Len(p) = 4
             /\ \A i \in 1..4 : AllDigits(p[i]) /\ Len(p[i]) \in 1..3 /\ ToInt(p[i]) <= 255
      \* ipaddress.IPv6Address(s) does not raise, for s without a zone or an
      \* embedded IPv4 address
      IPv6Address(s) ==
        LET parts == Split(s, ":")
            n == Len(parts)
            skips == {i \in 2..(n - 1) : parts[i] = ""}
        IN /\ \A i \in 1..Len(s) : CharAt(s, i) \notin {"%", "."}
           /\ n >= 3
           /\ n <= 9
           /\ Cardinality(skips) <= 1
           /\ IF skips # {} THEN
                LET k == CHOOSE i \in skips : TRUE
                    hi == (k - 1) - (IF parts[1] = "" THEN 1 ELSE 0)
                    lo == (n - k) - (IF parts[n] = "" THEN 1 ELSE 0)
                IN /\ parts[1] = "" => hi = 0
                   /\ parts[n] = "" => lo = 0
                   /\ 8 - (hi + lo) >= 1
                   /\ \A i \in 1..n : parts[i] # "" => IsHextet(parts[i])
              ELSE n = 8 /\ \A i \in 1..n : IsHextet(parts[i])
      \* re.match of the fallback pattern, tried after IPv6Address raised
      IPv6FallbackMatch(s) ==
        LET parts == Split(s, ":")
            n == Len(parts)
        IN \/ n = 8 /\ \A i \in 1..n : IsHextet(parts[i])
           \/ /\ n \in 3..9 /\ parts[n] = "" /\ parts[n - 1] = ""
              /\ \A i \in 1..(n - 2) : IsHextet(parts[i])
           \/ /\ n \in 3..9 /\ parts[1] = "" /\ parts[2] = ""
              /\ \A i \in 3..n : IsHextet(parts[i])
           \/ s = "::"
  IN IF optional_result.done THEN Returned(optional_result.result, calls)
     ELSE IF ~IsStr(value) THEN
       Returned(add_error(result, field_name, "Value must be a string", value, "TYPE_ERROR"),
                calls)
     ELSE IF self.allow_ipv4 /\ IPv4Match(value.s) THEN Returned(result, calls)
     ELSE IF self.allow_ipv6 /\ (IPv6Address(value.s) \/ IPv6FallbackMatch(value.s)) THEN
       Returned(result, calls)
     ELSE
       Returned(add_error(result, field_name,
                          "Value must be a valid " \o JoinStr(" or ", allowed_types)
                            \o " address", value, "INVALID_IP"), calls)

PhoneNumberValidator_validate(self, value, field_name) ==
  LET calls == <<ValidateCall("PhoneNumber", field_name)>>
      optional_result == handle_optional(self, value, field_name)
      result == ValidationResult(TRUE)
      \* re.sub of a character class by ''
      RECURSIVE RemoveChars(_, _)
      RemoveChars(s, chars) ==
        IF s = "" THEN ""
        ELSE (IF CharAt(s, 1) \in chars THEN "" ELSE CharAt(s, 1))
               \o RemoveChars(SubSeq(s, 2, Len(s)), chars)
      \* re.match of ^\+?[1-9]\d{6,14}$
      PhoneMatch(s) ==
        LET body == IF s # "" /\ CharAt(s, 1) = "+" THEN SubSeq(s, 2, Len(s)) ELSE s
        IN AllDigits(body) /\ CharAt(body, 1) # "0" /\ Len(body) \in 7..15
  IN IF optional_result.done THEN Returned(optional_result.result, calls)
     ELSE IF ~IsStr(value) THEN
       Returned(add_error(result, field_name, "Value must be a string", value, "TYPE_ERROR"),
                calls)
     ELSE
       LET cleaned == RemoveChars(value.s, Whitespace \cup {"-", "(", ")", "."})
       IN IF ~PhoneMatch(cleaned) THEN
            Returned(add_error(result, field_name, "Invalid phone number format", value,
                               "INVALID_PHONE"), calls)
          ELSE Returned(result, calls)

(***************************************************************************)
(* CustomValidator.                                                        *)
(***************************************************************************)
\* a faulty CustomValidator.validate that takes what the function returned
\* by its truth value, whatever its type
CustomValidator_validate_by_truth(self, value, field_name) ==
  LET calls == <<ValidateCall("Custom", field_name)>>
      optional_result == handle_optional(self, value, field_name)
      called == ApplyPredicate(self.validation_func, value)
      calls1 == Append(calls, UserCall(self.validation_func.name, field_name))
  IN IF optional_result.done THEN Returned(optional_result.result, calls)
     ELSE IF called.ok /\ Truthy(called.value) THEN Returned(ValidationResult(TRUE), calls1)
     ELSE Returned(add_error(ValidationResult(TRUE), field_name, "Custom validation failed",
                             value, "CUSTOM_VALIDATION"), calls1)

CustomValidator_validate(self, value, field_name) ==
  LET calls == <<ValidateCall("Custom", field_name)>>
      optional_result == handle_optional(self, value, field_name)
      result == ValidationResult(TRUE)
      called == ApplyPredicate(self.validation_func, value)
      calls1 == Append(calls, UserCall(self.validation_func.name, field_name))
  IN IF optional_result.done THEN Returned(optional_result.result, calls)
     ELSE IF ~called.ok THEN
       Returned(add_error(result, field_name, "Validation function error: " \o called.text,
                          value, "VALIDATION_ERROR"), calls1)
     ELSE
       LET validation_result == called.value
       IN IF IsBool(validation_result) THEN
            IF ~validation_result.b THEN
              Returned(add_error(result, field_name,
                                 MessageOr(self, "Custom validation failed"), value,
                                 "CUSTOM_VALIDATION"), calls1)
            ELSE Returned(result, calls1)
          ELSE IF IsStr(validation_result) THEN
            IF Truthy(validation_result) THEN
              Returned(add_error(result, field_name, validation_result.s, value,
                                 "CUSTOM_VALIDATION"), calls1)
            ELSE Returned(result, calls1)
          ELSE IF validation_result.t = "tuple" /\ Len(validation_result.items) = 2 THEN
            LET is_valid == validation_result.items[1]
                error_message == validation_result.items[2]
            IN IF ~Truthy(is_valid) THEN
                 Returned(add_error(result, field_name,
                                    IF Truthy(error_message) THEN PyRepr(error_message)
                                    ELSE "Custom validation failed",
                                    value, "CUSTOM_VALIDATION"), calls1)
               ELSE Returned(result, calls1)
          ELSE
            Returned(add_error(result, field_name, "Invalid validation function return type",
                               value, "VALIDATION_ERROR"), calls1)

(***************************************************************************)
(* Composite validators.  hash_seed stands for the interpreter's string    *)
(* hash randomisation, which fixes the iteration order of a set of keys.   *)
(***************************************************************************)
HashSeeds == {0, 1}
Reverse(seq) == [i \in 1..Len(seq) |-> seq[Len(seq) + 1 - i]]

\* set(value.keys()) - set(self._schema.keys()), in the order the set iterates
\* a faulty strict mode that lets unknown keys pass when allow_unknown is set
UnknownFields_unless_allowed(self, value, hash_seed) ==
  LET keys == [i \in 1..Len(value.entries) |-> value.entries[i].k]
  IN IF self.allow_unknown THEN <<>>
     ELSE SelectSeq(keys, LAMBDA k : ~\E i \in 1..Len(self.schema) :
                                        PyEq(k, PyStr(self.schema[i].name)))

UnknownFields(self, value, hash_seed) ==
  LET keys == [i \in 1..Len(value.entries) |-> value.entries[i].k]
      unknown == SelectSeq(keys,
                           LAMBDA k : ~\E i \in 1..Len(self.schema) :
                                         PyEq(k, PyStr(self.schema[i].name)))
  IN IF hash_seed = 0 THEN unknown ELSE Reverse(unknown)

\* the merge of a child's result into the parent's
MergeChild(result, child) ==
  LET merged == IF ~child.is_valid
                THEN [result EXCEPT !.errors = @ \o child.errors, !.is_valid = FALSE]
                ELSE result
  IN [merged EXCEPT !.warnings = @ \o child.warnings]

\* the parent goes on with the child's outcome: the child's exception
\* escapes, or the child's errors and warnings are merged into the result
MergeOutcome(outcome, child_outcome) ==
  IF child_outcome.raised
  THEN Raised(child_outcome.exc, outcome.calls \o child_outcome.calls)
  ELSE Returned(MergeChild(outcome.result, child_outcome.result),
                outcome.calls \o child_outcome.calls)

RECURSIVE validate(_, _, _, _)
RECURSIVE ValidateFields(_, _, _, _, _, _)
RECURSIVE ValidateItems(_, _, _, _, _, _)

\* one iteration of the loop over self._schema.items(): the i-th schema
\* field, starting from the result and the calls of outcome
FieldIteration(self, value, field_name, hash_seed, i, outcome) ==
  LET schema_field_name == self.schema[i].name
      validator == self.schema[i].validator
      \* f"{field_name}.{schema_field_name}" if field_name else schema_field_name
      current_field_name == IF field_name # ""
                            THEN field_name \o "." \o schema_field_name
                            ELSE schema_field_name
  IN IF HasKey(value, PyStr(schema_field_name)) THEN
       MergeOutcome(outcome, validate(validator, GetItem(value, PyStr(schema_field_name)),
                                      current_field_name, hash_seed))
     ELSE IF validator.required THEN
       Returned(add_error(outcome.result, current_field_name,
                          "Missing required field: " \o schema_field_name, PyNone,
                          "MISSING_FIELD"),
                outcome.calls)
     ELSE outcome

\* the loop over self._schema.items(), from the i-th schema field on
ValidateFields(self, value, field_name, hash_seed, i, outcome) ==
  IF outcome.raised \/ i > Len(self.schema) THEN outcome
  ELSE ValidateFields(self, value, field_name, hash_seed, i + 1,
                      FieldIteration(self, value, field_name, hash_seed, i, outcome))

\* ObjectValidator.validate up to its loop: the gate, the type check and the
\* strict check.  done with an outcome, or the result the loop starts from
ObjectValidator_begin(self, value, field_name, hash_seed) ==
  LET calls == <<ValidateCall("Object", field_name)>>
      optional_result == handle_optional(self, value, field_name)
      result == ValidationResult(TRUE)
      Done(outcome) == [done |-> TRUE, outcome |-> outcome]
  IN IF optional_result.done THEN Done(Returned(optional_result.result, calls))
     ELSE IF ~IsDict(value) THEN
       Done(Returned(add_error(result, field_name, MessageOr(self, "Value must be an object"),
                               value, "TYPE_ERROR"), calls))
     ELSE
       LET unknown_fields == IF self.strict THEN UnknownFields(self, value, hash_seed)
                             ELSE <<>>
       IN IF \E i \in 1..Len(unknown_fields) : ~IsStr(unknown_fields[i]) THEN
            \* ', '.join(unknown_fields) of a key that is not a str
            Done(Raised("TypeError", calls))
          ELSE
            [done |-> FALSE,
             outcome |-> Returned(IF unknown_fields # <<>>
                                  THEN add_error(result, field_name,
                                                 "Unknown fields not allowed: "
                                                   \o JoinStr(", ", StrAll(unknown_fields)),
                                                 value, "UNKNOWN_FIELDS")
                                  ELSE result,
                                  calls)]

ObjectValidator_validate(self, value, field_name, hash_seed) ==
  LET begin == ObjectValidator_begin(self, value, field_name, hash_seed)
  IN IF begin.done THEN begin.outcome
     ELSE ValidateFields(self, value, field_name, hash_seed, 1, begin.outcome)

\* one iteration of the loop over enumerate(value): the i-th item (1-based),
\* starting from the result and the calls of outcome
ItemIteration(self, value, field_name, hash_seed, i, outcome) ==
  \* f"{field_name}[{i}]" if field_name else f"[{i}]", for the 0-based index
  MergeOutcome(outcome, validate(self.item_validator, value.items[i],
                                 IF field_name # ""
                                 THEN field_name \o "[" \o ToString(i - 1) \o "]"
                                 ELSE "[" \o ToString(i - 1) \o "]",
                                 hash_seed))

\* the loop over enumerate(value), from the i-th item (1-based) on
ValidateItems(self, value, field_name, hash_seed, i, outcome) ==
  IF outcome.raised \/ i > Len(value.items) THEN outcome
  ELSE ValidateItems(self, value, field_name, hash_seed, i + 1,
                     ItemIteration(self, value, field_name, hash_seed, i, outcome))

\* ArrayValidator.validate up to its loop: the gate, the type check, the
\* length checks and the duplicate scan.  done with an outcome, or the result
\* the loop starts from
ArrayValidator_begin(self, value, field_name) ==
  LET calls == <<ValidateCall("Array", field_name)>>
      optional_result == handle_optional(self, value, field_name)
      result == ValidationResult(TRUE)
      Done(outcome) == [done |-> TRUE, outcome |-> outcome]
  IN IF optional_result.done THEN Done(Returned(optional_result.result, calls))
     ELSE IF ~IsList(value) THEN
       Done(Returned(add_error(result, field_name, MessageOr(self, "Value must be an array"),
                               value, "TYPE_ERROR"), calls))
     ELSE
       LET r1 == IF self.min_length # PyNone /\ Len(value.items) < self.min_length.n
                 THEN add_error(result, field_name,
                                "Array must have at least " \o PyRepr(self.min_length)
                                  \o " items", value, "MIN_LENGTH")
                 ELSE result
           r2 == IF self.max_length # PyNone /\ Len(value.items) > self.max_length.n
                 THEN add_error(r1, field_name,
                                "Array must have at most " \o PyRepr(self.max_length)
                                  \o " items", value, "MAX_LENGTH")
                 ELSE r1
       IN IF self.unique /\ \E i \in 1..Len(value.items) : ~Hashable(value.items[i]) THEN
            \* item in seen, seen.add(item) of an unhashable item
            Done(Raised("TypeError", calls))
          ELSE
            [done |-> FALSE,
             outcome |->
               \* the duplicate scan over hashable items
               LET items == value.items
                   Scan[i \in 0..Len(items)] ==
                     IF i = 0 THEN r2
                     ELSE IF \E j \in 1..(i - 1) : PyEq(items[j], items[i])
                     THEN add_error(Scan[i - 1], field_name,
                                    "Duplicate item at index " \o ToString(i - 1), items[i],
                                    "DUPLICATE_ITEM")
                     ELSE Scan[i - 1]
               IN Returned(IF self.unique THEN Scan[Len(items)] ELSE r2, calls)]

ArrayValidator_validate(self, value, field_name, hash_seed) ==
  LET begin == ArrayValidator_begin(self, value, field_name)
  IN IF begin.done THEN begin.outcome
     ELSE ValidateItems(self, value, field_name, hash_seed, 1, begin.outcome)

\* validator.validate(value, field_name), dispatched on the class of the node
validate(self, value, field_name, hash_seed) ==
  CASE self.kind = "String" -> StringValidator_validate(self, value, field_name)
    [] self.kind = "Number" -> NumberValidator_validate(self, value, field_name)
    [] self.kind = "Boolean" -> BooleanValidator_validate(self, value, field_name)
    [] self.kind = "Date" -> DateValidator_validate(self, value, field_name)
    [] self.kind = "IPAddress" -> IPAddressValidator_validate(self, value, field_name)
    [] self.kind = "PhoneNumber" -> PhoneNumberValidator_validate(self, value, field_name)
    [] self.kind = "Custom" -> CustomValidator_validate(self, value, field_name)
    [] self.kind = "Object" -> ObjectValidator_validate(self, value, field_name, hash_seed)
    [] self.kind = "Array" -> ArrayValidator_validate(self, value, field_name, hash_seed)

(***************************************************************************)
(* The values validate is called with.                                     *)
(***************************************************************************)
\* values offered to every validator: the absent values, strings, numbers,
\* booleans and empty containers
Scalars ==
  {PyNone, PyStr(""), PyStr(" "), PyStr("ab"), PyInt(0), PyInt(5), PyBool(TRUE),
   PyBool(FALSE), PyList(<<>>), PyDict(<<>>)}

\* values offered as list items and dict values to a leaf: a string, a
\* number, an absent value
LeafSamples == <<PyStr("ab"), PyInt(5), PyNone>>

\* all sequences over S of length at most n
SeqsUpTo(S, n) == UNION {[1..k -> S] : k \in 0..n}
Range(seq) == {seq[i] : i \in 1..Len(seq)}

\* keys a dict may carry beyond those of the schema
ExtraEntries ==
  {<<[k |-> PyStr("x"), v |-> PyInt(5)]>>,
   <<[k |-> PyInt(7), v |-> PyInt(5)]>>,
   <<[k |-> PyStr("x"), v |-> PyInt(5)], [k |-> PyStr("y"), v |-> PyInt(5)]>>}

RECURSIVE NestedSamples(_)

\* values offered as list items and dict values to a validator
NestedSamples(self) ==
  CASE self.kind = "Array" ->
         LET samples == NestedSamples(self.item_validator)
         IN <<PyList(<<>>)>> \o [i \in 1..Len(samples) |-> PyList(<<samples[i]>>)]
    [] self.kind = "Object" ->
         LET longest == CHOOSE n \in 1..(Len(LeafSamples) + MaxDepth) :
                          /\ \A i \in 1..Len(self.schema) :
                               Len(NestedSamples(self.schema[i].validator)) <= n
                          /\ \E i \in 1..Len(self.schema) :
                               Len(NestedSamples(self.schema[i].validator)) = n
             \* the j-th dict that gives every schema field a sample: field i
             \* gets its samples in turn
             FullDict(j) ==
               [i \in 1..Len(self.schema) |->
                  LET samples == NestedSamples(self.schema[i].validator)
                  IN [k |-> PyStr(self.schema[i].name),
                      v |-> samples[((j - 1) % Len(samples)) + 1]]]
         IN <<PyDict(<<>>)>> \o [j \in 1..longest |-> PyDict(FullDict(j))]
    [] OTHER -> LeafSamples

RECURSIVE DictsFor(_, _)
\* dicts that give each schema field from the i-th on a sample or leave it out
DictsFor(schema, i) ==
  IF i > Len(schema) THEN {<<>>}
  ELSE LET rest == DictsFor(schema, i + 1)
           here == {<<[k |-> PyStr(schema[i].name), v |-> x]>> :
                      x \in Range(NestedSamples(schema[i].validator))}
       IN rest \cup {h \o r : h \in here, r \in rest}

\* values to call validate of a tree with: the scalars, lists of up to
\* MaxLen items for an array, dicts over the schema's keys for an object,
\* the dict with the empty string at every key of the schema among them,
\* and dicts with keys that the schema does not have
Inputs(self) ==
  CASE self.kind = "Array" ->
         Scalars \cup {PyList(items) :
                         items \in SeqsUpTo(Range(NestedSamples(self.item_validator)), MaxLen)}
    [] self.kind = "Object" ->
         LET blank == PyDict([i \in 1..Len(self.schema) |->
                                [k |-> PyStr(self.schema[i].name), v |-> PyStr("")]])
         IN Scalars \cup {PyDict(d) : d \in DictsFor(self.schema, 1)}
                    \cup {blank}
                    \cup {PyDict(d.entries \o e) :
                            d \in {NestedSamples(self)[1], NestedSamples(self)[2], blank},
                            e \in ExtraEntries}
    [] OTHER ->
         \* with further values for a leaf validator of each kind
         Scalars \cup
           (CASE self.kind = "String" ->
                   {PyStr("12"), PyStr("AB"), PyStr(" ab "), PyStr("123abc"), PyStr("ab1"),
                    PyStr(" 12 "), PyStr("7")}
              [] self.kind = "Number" -> {PyFloat(3), PyInt(1)}
              [] self.kind = "Boolean" -> {PyStr("yes"), PyInt(1)}
              [] self.kind = "Date" ->
                   {PyStr("2024-02-30"), PyStr("2024-03-01"), PyStr("2024-03-02"),
                    PyStr("01/02/2024"), PyDateTime(0, 0)}
              [] self.kind = "IPAddress" -> {PyStr("10.0.0.1"), PyStr("::1"), PyStr("1::2::3")}
              [] self.kind = "PhoneNumber" -> {PyStr("+1 (555) 123-4567"), PyStr("12")}
              [] OTHER -> {})

(***************************************************************************)
(* State: the validator tree the caller holds, what the last call returned *)
(* to it, the hash seed the interpreter was started with, the calls of     *)
(* validate that the threads of the process have in progress, the          *)
(* validator objects by identity, for schemas that hold the same object,   *)
(* and the rules engine of the board game (None where no game is built).   *)
(***************************************************************************)
VARIABLES validator, ret, PYTHONHASHSEED, threads, heap, game_rules
vars == <<validator, ret, PYTHONHASHSEED, threads, heap, game_rules>>

Threads == {1, 2}

\* identities of validator objects, and an identity no object has yet
Ids == 1..3
Free == [kind |-> "free"]

\* a thread outside validate, holding the results its calls returned
Idle(returned) ==
  [pc |-> "idle", value |-> PyNone, field_name |-> "", i |-> 0,
   outcome |-> Returned(ValidationResult(TRUE), <<>>), returned |-> returned]

\* Schema.email() and Schema.url(): string validators with a pattern and a
\* message
Schema_email ==
  [StringValidator EXCEPT !.pattern = PyStr(EmailPattern),
                          !.custom_message = PyStr("Invalid email format")]
Schema_url ==
  [StringValidator EXCEPT !.pattern = PyStr(UrlPattern),
                          !.custom_message = PyStr("Invalid URL format")]

\* one item of a schema dict
Field(name, v) == [name |-> name, validator |-> v]

\* the validator the factory made a node as: what its constructor makes of
\* the node's constructor arguments, with the pattern and the message that
\* Schema.email and Schema.url set
Fresh(self) ==
  CASE self.kind = "String" ->
         IF self.pattern = PyStr(EmailPattern) THEN Schema_email
         ELSE IF self.pattern = PyStr(UrlPattern) THEN Schema_url
         ELSE StringValidator
    [] self.kind = "Number" -> NumberValidator
    [] self.kind = "Boolean" -> BooleanValidator
    [] self.kind = "Date" -> DateValidator
    [] self.kind = "Object" -> ObjectValidator(self.schema)
    [] self.kind = "Array" -> ArrayValidator(self.item_validator)
    [] self.kind = "IPAddress" -> IPAddressValidator(self.allow_ipv4, self.allow_ipv6)
    [] self.kind = "PhoneNumber" -> PhoneNumberValidator(self.country_code)
    [] self.kind = "Custom" -> CustomValidator(self.validation_func)

\* the validators held by a composite
Children(self) ==
  CASE self.kind = "Array" -> <<self.item_validator>>
    [] self.kind = "Object" -> [i \in 1..Len(self.schema) |-> self.schema[i].validator]
    [] OTHER -> <<>>

RECURSIVE Depth(_)
\* nesting depth of a validator tree
Depth(self) ==
  LET children == Children(self)
      Max[i \in 0..Len(children)] ==
        IF i = 0 THEN 0
        ELSE IF Depth(children[i]) > Max[i - 1] THEN Depth(children[i]) ELSE Max[i - 1]
  IN IF children = <<>> THEN 0 ELSE 1 + Max[Len(children)]

RECURSIVE Settings(_)
\* the number of attributes, over the nodes of a tree, that a builder call
\* has set to another value than __init__ gave them
Settings(self) ==
  LET children == Children(self)
      Sum[i \in 0..Len(children)] ==
        IF i = 0 THEN 0 ELSE Sum[i - 1] + Settings(children[i])
  IN Cardinality({a \in DOMAIN self : self[a] # Fresh(self)[a]}) + Sum[Len(children)]

NoReturn == [op |-> "none"]

\* a builder method sets attributes of the receiver and returns it; the
\* caller has let go of the last result before it builds on
Configure(configured) ==
  /\ ret.op # "validate"
  /\ Settings(configured) <= MaxSettings
  /\ validator' = configured
  /\ ret' = [op |-> "self"]
  /\ UNCHANGED <<PYTHONHASHSEED, threads, heap, game_rules>>

(***************************************************************************)
(* Builder methods of every validator.                                     *)
(***************************************************************************)
with_message ==
  \E message \in {"custom message"} :
    Configure([validator EXCEPT !.custom_message = PyStr(message)])

required ==
  \E is_required \in BOOLEAN : Configure([validator EXCEPT !.required = is_required])

\* optional() is required(False)
optional == Configure([validator EXCEPT !.required = FALSE])

transform ==
  \E transform_func \in {PyFunction("lower"), PyFunction("double"), PyFunction("boom")} :
    Configure([validator EXCEPT !.transform = transform_func])

(***************************************************************************)
(* Builder methods of the leaf validators.                                 *)
(***************************************************************************)
StringValidator_min_length ==
  /\ validator.kind = "String"
  /\ \E length \in {3} : Configure([validator EXCEPT !.min_length = PyInt(length)])

StringValidator_max_length ==
  /\ validator.kind = "String"
  /\ \E length \in {1} : Configure([validator EXCEPT !.max_length = PyInt(length)])

StringValidator_pattern ==
  /\ validator.kind = "String"
  /\ \E regex \in {DigitsPattern, DigitPrefixPattern} :
       Configure([validator EXCEPT !.pattern = PyStr(regex)])

StringValidator_allowed_values ==
  /\ validator.kind = "String"
  /\ \E values \in {<<PyStr("ab"), PyStr("cd")>>} :
       Configure([validator EXCEPT !.allowed_values = PyList(values)])

StringValidator_trim ==
  /\ validator.kind = "String"
  /\ \E trim \in BOOLEAN : Configure([validator EXCEPT !.trim = trim])

StringValidator_case_sensitive ==
  /\ validator.kind = "String"
  /\ \E case_sensitive \in BOOLEAN :
       Configure([validator EXCEPT !.case_sensitive = case_sensitive])

NumberValidator_min_value ==
  /\ validator.kind = "Number"
  /\ \E value \in {PyInt(2)} : Configure([validator EXCEPT !.min_value = value])

NumberValidator_max_value ==
  /\ validator.kind = "Number"
  /\ \E value \in {PyInt(1)} : Configure([validator EXCEPT !.max_value = value])

NumberValidator_integer_only ==
  /\ validator.kind = "Number"
  /\ \E integer_only \in BOOLEAN :
       Configure([validator EXCEPT !.integer_only = integer_only])

NumberValidator_allowed_values ==
  /\ validator.kind = "Number"
  /\ \E values \in {<<PyInt(1), PyInt(2)>>} :
       Configure([validator EXCEPT !.allowed_values = PyList(values)])

\* a faulty truthy_values that adds the values to those already there
BooleanValidator_truthy_values_extends ==
  /\ validator.kind = "Boolean"
  /\ \E values \in {<<PyStr("ab")>>} :
       Configure([validator EXCEPT !.truthy_values = @ \o values])

BooleanValidator_truthy_values ==
  /\ validator.kind = "Boolean"
  /\ \E values \in {<<PyStr("ab")>>} : Configure([validator EXCEPT !.truthy_values = values])

BooleanValidator_falsy_values ==
  /\ validator.kind = "Boolean"
  /\ \E values \in {<<PyStr("ab")>>} : Configure([validator EXCEPT !.falsy_values = values])

DateValidator_format ==
  /\ validator.kind = "Date"
  /\ \E date_format \in {"%m/%d/%Y"} :
       Configure([validator EXCEPT !.format = PyStr(date_format)])

\* min_date(datetime(2024, 3, 1))
DateValidator_min_date ==
  /\ validator.kind = "Date"
  /\ \E date \in {PyDateTime(DayNumber(2024, 3, 1), 0)} :
       Configure([validator EXCEPT !.min_date = date])

\* max_date(datetime(2024, 3, 1))
DateValidator_max_date ==
  /\ validator.kind = "Date"
  /\ \E date \in {PyDateTime(DayNumber(2024, 3, 1), 0)} :
       Configure([validator EXCEPT !.max_date = date])

(***************************************************************************)
(* Builder methods of the composite validators, and the factory calls that *)
(* put the validator built so far into a new composite.                    *)
(***************************************************************************)
ObjectValidator_strict ==
  /\ validator.kind = "Object"
  /\ \E strict \in BOOLEAN : Configure([validator EXCEPT !.strict = strict])

ObjectValidator_allow_unknown ==
  /\ validator.kind = "Object"
  /\ \E allow \in BOOLEAN : Configure([validator EXCEPT !.allow_unknown = allow])

ArrayValidator_min_length ==
  /\ validator.kind = "Array"
  /\ \E length \in {1} : Configure([validator EXCEPT !.min_length = PyInt(length)])

ArrayValidator_max_length ==
  /\ validator.kind = "Array"
  /\ \E length \in {0} : Configure([validator EXCEPT !.max_length = PyInt(length)])

ArrayValidator_unique ==
  /\ validator.kind = "Array"
  /\ \E unique \in BOOLEAN : Configure([validator EXCEPT !.unique = unique])

\* Schema.array(validator)
Schema_array ==
  /\ ret.op # "validate"
  /\ Depth(validator) < MaxDepth
  /\ validator' = ArrayValidator(validator)
  /\ ret' = NoReturn
  /\ UNCHANGED <<PYTHONHASHSEED, threads, heap, game_rules>>

\* Schema.object({name: validator}) for the keys 'a' and '', and
\* Schema.object({'a': validator, 'b': Schema.number()})
Schema_object ==
  /\ ret.op # "validate"
  /\ Depth(validator) < MaxDepth
  /\ \/ \E name \in {"a", ""} : validator' = ObjectValidator(<<Field(name, validator)>>)
     \/ validator' = ObjectValidator(<<Field("a", validator), Field("b", NumberValidator)>>)
  /\ ret' = NoReturn
  /\ UNCHANGED <<PYTHONHASHSEED, threads, heap, game_rules>>

(***************************************************************************)
(* validator.validate(value, field_name)                                   *)
(***************************************************************************)
\* the arguments: every input with the default field_name, and the values a
\* parent would pass with the parent's path
Validate ==
  \E args \in {[value |-> v, field_name |-> ""] : v \in Inputs(validator)}
                \cup {[value |-> v, field_name |-> "data"] :
                        v \in Range(NestedSamples(validator)) \cup {PyNone, PyStr("")}} :
    /\ ret.op # "validate"
    /\ ret' = [op |-> "validate", value |-> args.value, field_name |-> args.field_name,
               outcome |-> validate(validator, args.value, args.field_name, PYTHONHASHSEED)]
    /\ UNCHANGED <<validator, PYTHONHASHSEED, threads, heap, game_rules>>

\* the caller lets go of the result it holds
Discard ==
  /\ ret.op = "validate"
  /\ ret' = NoReturn
  /\ UNCHANGED <<validator, PYTHONHASHSEED, threads, heap, game_rules>>

(***************************************************************************)
(* Spec: validator trees are built bottom-up from a fresh leaf, configured *)
(* by required/optional and the builders of the composites, and validated. *)
(***************************************************************************)
FreshLeaves ==
  {StringValidator, NumberValidator, CustomValidator(PyFunction("is_str"))}

Init ==
  /\ validator \in FreshLeaves
  /\ ret = NoReturn
  /\ PYTHONHASHSEED \in HashSeeds
  /\ threads = [t \in Threads |-> Idle(<<>>)]
  /\ heap = [id \in Ids |-> Free]
  /\ game_rules = PyNone

Next ==
  \/ required
  \/ optional
  \/ ObjectValidator_strict
  \/ ObjectValidator_allow_unknown
  \/ ArrayValidator_min_length
  \/ ArrayValidator_max_length
  \/ ArrayValidator_unique
  \/ Schema_array
  \/ Schema_object
  \/ Validate
  \/ Discard

Spec == Init /\ [][Next]_vars

(***************************************************************************)
(* SpecBuilders: a fresh validator of each variant, configured by every    *)
(* builder method, and validated.                                          *)
(***************************************************************************)
FreshValidators ==
  FreshLeaves
    \cup {BooleanValidator, DateValidator, Schema_email, Schema_url,
          IPAddressValidator(TRUE, TRUE),
          PhoneNumberValidator(PyNone)}
    \cup {CustomValidator(PyFunction(name)) :
            name \in {"always_true", "always_false", "message", "no_message", "pair_false",
                      "pair_false_empty", "pair_true", "number", "nothing", "boom"}}
    \cup {ArrayValidator(StringValidator),
          ObjectValidator(<<Field("a", StringValidator), Field("b", NumberValidator)>>)}

InitBuilders ==
  /\ validator \in FreshValidators
  /\ ret = NoReturn
  /\ PYTHONHASHSEED \in HashSeeds
  /\ threads = [t \in Threads |-> Idle(<<>>)]
  /\ heap = [id \in Ids |-> Free]
  /\ game_rules = PyNone

NextBuilders ==
  \/ with_message
  \/ required
  \/ optional
  \/ transform
  \/ StringValidator_min_length
  \/ StringValidator_max_length
  \/ StringValidator_pattern
  \/ StringValidator_allowed_values
  \/ StringValidator_trim
  \/ StringValidator_case_sensitive
  \/ NumberValidator_min_value
  \/ NumberValidator_max_value
  \/ NumberValidator_integer_only
  \/ NumberValidator_allowed_values
  \/ BooleanValidator_truthy_values
  \/ BooleanValidator_falsy_values
  \/ DateValidator_format
  \/ DateValidator_min_date
  \/ DateValidator_max_date
  \/ ObjectValidator_strict
  \/ ObjectValidator_allow_unknown
  \/ ArrayValidator_min_length
  \/ ArrayValidator_max_length
  \/ ArrayValidator_unique
  \/ Validate
  \/ Discard

SpecBuilders == InitBuilders /\ [][NextBuilders]_vars

(***************************************************************************)
(* SpecChains: a validator as a whole chain of builder calls leaves it,    *)
(* as in Schema.string().min_length(3).max_length(1).pattern(...), with    *)
(* any number of its attributes set, and validated.                        *)
(***************************************************************************)
ChainedValidators ==
  LET None(values) == {PyNone} \cup values
      Base == {[custom_message |-> m, field_name |-> PyNone, required |-> r, transform |-> PyNone] :
                 m \in None({PyStr("custom message")}), r \in BOOLEAN}
      Strings ==
        {Extend(StringValidator,
                [min_length |-> lo, max_length |-> hi, pattern |-> regex, allowed_values |-> av,
                 trim |-> tr, case_sensitive |-> cs, transform |-> f]) :
           lo \in None({PyInt(3)}), hi \in None({PyInt(1)}),
           regex \in None({PyStr(DigitsPattern), PyStr(DigitPrefixPattern)}),
           av \in None({PyList(<<PyStr("ab"), PyStr("12")>>)}),
           tr \in BOOLEAN, cs \in BOOLEAN,
           f \in None({PyFunction("lower"), PyFunction("strip"), PyFunction("boom")})}
      Numbers ==
        {Extend(NumberValidator,
                [min_value |-> lo, max_value |-> hi, integer_only |-> io, allowed_values |-> av,
                 transform |-> f]) :
           lo \in None({PyInt(2)}), hi \in None({PyInt(1)}), io \in BOOLEAN,
           av \in None({PyList(<<PyInt(1), PyInt(2)>>)}),
           f \in None({PyFunction("double"), PyFunction("boom")})}
      Booleans ==
        {Extend(BooleanValidator, [truthy_values |-> tv, falsy_values |-> fv]) :
           tv \in {BooleanValidator.truthy_values, <<PyStr("ab")>>},
           fv \in {BooleanValidator.falsy_values, <<PyStr("ab")>>, <<PyInt(5)>>}}
      Customs ==
        {CustomValidator(PyFunction(name)) :
           name \in {"always_true", "always_false", "message", "no_message", "pair_false",
                     "pair_false_empty", "pair_true", "number", "nothing", "boom"}}
      Optional(v) == {v, [v EXCEPT !.required = FALSE]}
      Objects ==
        {Extend(ObjectValidator(<<Field("a", a), Field("b", b)>>),
                [strict |-> st, allow_unknown |-> au]) :
           a \in Optional(StringValidator),
           b \in Optional(NumberValidator) \cup {BooleanValidator},
           st \in BOOLEAN, au \in BOOLEAN}
  IN {Extend(v, [custom_message |-> b.custom_message, required |-> b.required]) :
        v \in Strings \cup Numbers \cup Booleans \cup Customs, b \in Base}
       \cup Objects

InitChains ==
  /\ validator \in ChainedValidators
  /\ ret = NoReturn
  /\ PYTHONHASHSEED \in HashSeeds
  /\ threads = [t \in Threads |-> Idle(<<>>)]
  /\ heap = [id \in Ids |-> Free]
  /\ game_rules = PyNone

NextChains ==
  \/ Validate
  \/ Discard

SpecChains == InitChains /\ [][NextChains]_vars

(***************************************************************************)
(* SpecCalls: the threads of one process call validate on a tree that was  *)
(* configured before and is not configured again.  A call of a composite   *)
(* validator takes one step up to its loop and one step for each iteration *)
(* of the loop; the steps of the threads interleave.  A thread keeps the   *)
(* results its calls returned.                                             *)
(***************************************************************************)
MaxCalls == 2

\* the local variables of thread t's call become local; no other thread's do
SetLocal_shared(t, local) ==
  [u \in Threads |->
     IF u = t THEN local
     ELSE IF threads[u].pc = "loop" /\ ~local.outcome.raised
     THEN [threads[u] EXCEPT !.outcome.result = local.outcome.result]
     ELSE threads[u]]

SetLocal(t, local) == [threads EXCEPT ![t] = local]

\* the local variables of a call of validate(value) after one more step,
\* which came to begin.outcome and, if begin.done, to a return statement
Advance(local, value, begin) ==
  LET iterations == CASE validator.kind = "Object" -> Len(validator.schema)
                      [] validator.kind = "Array" /\ IsList(value) -> Len(value.items)
                      [] OTHER -> 0
  IN [pc |-> IF begin.done \/ begin.outcome.raised \/ local.i >= iterations
             THEN "done" ELSE "loop",
      value |-> value, field_name |-> "", i |-> local.i + 1, outcome |-> begin.outcome,
      returned |-> local.returned]

\* thread t enters validator.validate(value) and runs it up to its loop;
\* the values for an object are dicts with the schema's keys and dicts with
\* unknown keys inserted in either order
Call(t) ==
  /\ threads[t].pc = "idle"
  /\ Len(threads[1].returned) + Len(threads[2].returned)
       + Cardinality({u \in Threads : threads[u].pc # "idle"}) < MaxCalls
  /\ \E value \in (
        CASE validator.kind = "Object" ->
               {PyNone, NestedSamples(validator)[2]}
                 \cup {PyDict(e) : e \in ExtraEntries \cup {Reverse(e) : e \in ExtraEntries}}
          [] validator.kind = "Array" ->
               {PyNone} \cup {PyList(items) :
                                items \in SeqsUpTo({NestedSamples(validator.item_validator)[1],
                                                    NestedSamples(validator.item_validator)[2]},
                                                   MaxLen)}
          [] OTHER -> {PyNone, PyStr("AB"), PyInt(5)}) :
       threads' = SetLocal(t, Advance(threads[t], value,
                     CASE validator.kind = "Object" ->
                            ObjectValidator_begin(validator, value, "", PYTHONHASHSEED)
                       [] validator.kind = "Array" -> ArrayValidator_begin(validator, value, "")
                       [] OTHER -> [done |-> TRUE,
                                    outcome |-> validate(validator, value, "",
                                                         PYTHONHASHSEED)]))
  /\ UNCHANGED <<validator, ret, PYTHONHASHSEED, heap, game_rules>>

\* thread t runs one iteration of the loop of its call
Step(t) ==
  /\ threads[t].pc = "loop"
  /\ threads' = SetLocal(t, Advance(threads[t], threads[t].value,
                   [done |-> FALSE,
                    outcome |->
                      IF validator.kind = "Object"
                      THEN FieldIteration(validator, threads[t].value, threads[t].field_name,
                                          PYTHONHASHSEED, threads[t].i, threads[t].outcome)
                      ELSE ItemIteration(validator, threads[t].value, threads[t].field_name,
                                         PYTHONHASHSEED, threads[t].i, threads[t].outcome)]))
  /\ UNCHANGED <<validator, ret, PYTHONHASHSEED, heap, game_rules>>

\* thread t's call returns or raises; the thread keeps what it got
Return(t) ==
  /\ threads[t].pc = "done"
  /\ threads' = SetLocal(t, Idle(Append(threads[t].returned,
                                        [value |-> threads[t].value,
                                         field_name |-> threads[t].field_name,
                                         outcome |-> threads[t].outcome])))
  /\ UNCHANGED <<validator, ret, PYTHONHASHSEED, heap, game_rules>>

\* trees configured before the calls: an object in strict mode, an array of
\* unique strings, an array of objects, a string with a transformation
InitCalls ==
  /\ validator \in
      {[ObjectValidator(<<Field("a", StringValidator), Field("b", NumberValidator)>>)
          EXCEPT !.strict = TRUE],
       [ArrayValidator(StringValidator) EXCEPT !.unique = TRUE],
       ArrayValidator(ObjectValidator(<<Field("a", StringValidator)>>)),
       [StringValidator EXCEPT !.transform = PyFunction("lower")]}
  /\ ret = NoReturn
  /\ PYTHONHASHSEED \in HashSeeds
  /\ threads = [t \in Threads |-> Idle(<<>>)]
  /\ heap = [id \in Ids |-> Free]
  /\ game_rules = PyNone

NextCalls ==
  \E t \in Threads :
    \/ Call(t)
    \/ Step(t)
    \/ Return(t)

SpecCalls == InitCalls /\ [][NextCalls]_vars

(***************************************************************************)
(* SpecResult: a ValidationResult on its own.  The holder of a result      *)
(* calls add_error and add_warning on it and merges the result of a child  *)
(* into it, as the composite validators do.                                *)
(***************************************************************************)
\* add_error(field, message, value, code) on the result held
Result_add_error ==
  /\ ret.op \in {"ValidationResult", "add_error", "add_warning", "merge"}
  /\ Len(ret.result.errors) < MaxLen
  /\ \E field \in {"", "a"}, value \in {PyNone, PyInt(5)}, code \in {"TYPE_ERROR", "REQUIRED"} :
       ret' = [op |-> "add_error",
               entry |-> ValidationError(field, "not valid", value, ERROR, code),
               result |-> add_error(ret.result, field, "not valid", value, code)]
  /\ UNCHANGED <<validator, PYTHONHASHSEED, threads, heap, game_rules>>

\* add_warning(field, message, value, code) on the result held
Result_add_warning ==
  /\ ret.op \in {"ValidationResult", "add_error", "add_warning", "merge"}
  /\ Len(ret.result.warnings) < MaxLen
  /\ \E field \in {"", "a"}, value \in {PyNone, PyInt(5)}, code \in {"DEPRECATED"} :
       ret' = [op |-> "add_warning",
               entry |-> ValidationError(field, "take note", value, WARNING, code),
               result |-> add_warning(ret.result, field, "take note", value, code)]
  /\ UNCHANGED <<validator, PYTHONHASHSEED, threads, heap, game_rules>>

\* the result of a child, with a warning and with or without an error, is
\* merged into the result held
Result_merge ==
  /\ ret.op \in {"ValidationResult", "add_error", "add_warning", "merge"}
  /\ \E child \in {add_warning(ValidationResult(TRUE), "a.b", "take note", PyNone, "DEPRECATED"),
                    add_warning(add_error(ValidationResult(TRUE), "a.b", "not valid", PyNone,
                                          "REQUIRED"),
                                "a.b", "take note", PyNone, "DEPRECATED")} :
       /\ Len(ret.result.errors) + Len(child.errors) <= MaxLen
       /\ Len(ret.result.warnings) + Len(child.warnings) <= MaxLen
       /\ ret' = [op |-> "merge", entry |-> child, result |-> MergeChild(ret.result, child)]
  /\ UNCHANGED <<validator, PYTHONHASHSEED, threads, heap, game_rules>>

\* ValidationResult(True) and ValidationResult(False)
InitResult ==
  /\ validator = StringValidator
  /\ \E is_valid \in BOOLEAN :
       ret = [op |-> "ValidationResult", entry |-> PyNone, result |-> ValidationResult(is_valid)]
  /\ PYTHONHASHSEED = 0
  /\ threads = [t \in Threads |-> Idle(<<>>)]
  /\ heap = [id \in Ids |-> Free]
  /\ game_rules = PyNone

NextResult ==
  \/ Result_add_error
  \/ Result_add_warning
  \/ Result_merge

SpecResult == InitResult /\ [][NextResult]_vars

(***************************************************************************)
(* SpecInstances: validator objects by identity.  A composite holds its    *)
(* children by reference, so one object can be in several schemas; the     *)
(* builder methods of Validator are called on any object, also on one that *)
(* a schema already holds.                                                 *)
(***************************************************************************)
RECURSIVE Tree(_, _)
\* the validator tree below the object id of the heap h
Tree(h, id) ==
  CASE h[id].kind = "Array" -> [h[id] EXCEPT !.item_validator = Tree(h, @)]
    [] h[id].kind = "Object" ->
         [h[id] EXCEPT !.schema = [i \in 1..Len(@) |-> Field(@[i].name, Tree(h, @[i].validator))]]
    [] OTHER -> h[id]

\* a builder method assigns to attributes of self and returns self
SetAttr_on_copy(id, configured) ==
  IF \E new \in Ids : heap[new] = Free
  THEN LET new == CHOOSE new \in Ids : heap[new] = Free
       IN [heap |-> [heap EXCEPT ![new] = configured], self |-> new]
  ELSE [heap |-> [heap EXCEPT ![id] = configured], self |-> id]

SetAttr(id, configured) == [heap |-> [heap EXCEPT ![id] = configured], self |-> id]

\* object id's method is called with arg and leaves the object as configured
CallBuilder(id, method, arg, configured) ==
  /\ heap[id] # Free
  /\ LET after == SetAttr(id, configured)
     IN /\ Cardinality({<<o, a>> \in Ids \X DOMAIN BaseAttrs :
                          /\ after.heap[o] # Free
                          /\ after.heap[o][a] # BaseAttrs[a]}) <= MaxSettings
        /\ heap' = after.heap
        /\ ret' = [op |-> "self", method |-> method, arg |-> arg, receiver |-> id,
                   returned |-> after.self]
  /\ UNCHANGED <<validator, PYTHONHASHSEED, threads, game_rules>>

Instance_with_message ==
  \E id \in Ids, message \in {PyStr("custom message"), PyStr("another message")} :
    CallBuilder(id, "with_message", message, [heap[id] EXCEPT !.custom_message = message])

Instance_required ==
  \E id \in Ids, is_required \in BOOLEAN :
    CallBuilder(id, "required", PyBool(is_required),
                [heap[id] EXCEPT !.required = is_required])

Instance_optional ==
  \E id \in Ids : CallBuilder(id, "optional", PyNone, [heap[id] EXCEPT !.required = FALSE])

Instance_transform ==
  \E id \in Ids, transform_func \in {PyFunction("lower")} :
    CallBuilder(id, "transform", transform_func,
                [heap[id] EXCEPT !.transform = transform_func])

\* Schema.string(), Schema.array(v) and Schema.object({'a': v}) make a new
\* object; a composite holds the object v it was given
Instance_new ==
  \E new \in Ids :
    /\ heap[new] = Free
    /\ \A id \in 1..(new - 1) : heap[id] # Free
    /\ \/ heap' = [heap EXCEPT ![new] = StringValidator]
       \/ \E v \in 1..(new - 1) :
            /\ Depth(Tree(heap, v)) < MaxDepth
            /\ \/ heap' = [heap EXCEPT ![new] = ArrayValidator(v)]
               \/ heap' = [heap EXCEPT ![new] = ObjectValidator(<<Field("a", v)>>)]
    /\ ret' = NoReturn
    /\ UNCHANGED <<validator, PYTHONHASHSEED, threads, game_rules>>

\* validate of the object id
Instance_validate ==
  \E id \in Ids :
    /\ heap[id] # Free
    /\ \E value \in {PyNone} \cup Range(NestedSamples(Tree(heap, id))) :
         ret' = [op |-> "validate", receiver |-> id, value |-> value, field_name |-> "",
                 outcome |-> validate(Tree(heap, id), value, "", PYTHONHASHSEED)]
    /\ UNCHANGED <<validator, PYTHONHASHSEED, threads, heap, game_rules>>

\* no object is made strict, so the hash seed is never read
InitInstances ==
  /\ validator = StringValidator
  /\ ret = NoReturn
  /\ PYTHONHASHSEED = 0
  /\ threads = [t \in Threads |-> Idle(<<>>)]
  /\ heap = [id \in Ids |-> Free]
  /\ game_rules = PyNone

NextInstances ==
  \/ Instance_with_message
  \/ Instance_required
  \/ Instance_optional
  \/ Instance_transform
  \/ Instance_new
  \/ Instance_validate

SpecInstances == InitInstances /\ [][NextInstances]_vars

(***************************************************************************)
(* The call the caller has just made, and what came back.                  *)
(***************************************************************************)
\* validate has been called and its outcome is at hand
Called == ret.op = "validate"
\* validate has returned a ValidationResult
HasResult == Called /\ ~ret.outcome.raised
\* the errors of the returned result that satisfy P
ErrorsWhere(P(_)) == SelectSeq(ret.outcome.result.errors, P)

(***************************************************************************)
(* C1.  In every ValidationResult that validate returns, for any validator *)
(* tree and any input, is_valid is False if and only if the errors list is *)
(* non-empty.                                                              *)
(***************************************************************************)
C1_IsValidIffNoErrors ==
  HasResult => (~ret.outcome.result.is_valid <=> ret.outcome.result.errors # <<>>)

\* a tree two levels deep has returned an invalid result that merges the
\* errors of more than one node
C1_Witness ==
  /\ HasResult
  /\ Depth(validator) = 2
  /\ ~ret.outcome.result.is_valid
  /\ Len(ret.outcome.result.errors) >= 2
  /\ \E i, j \in 1..Len(ret.outcome.result.errors) :
       ret.outcome.result.errors[i].field # ret.outcome.result.errors[j].field

(***************************************************************************)
(* C2.  Optionality gate, required case: for every validator variant with  *)
(* required=True, validate(v, path) with v None or the empty string        *)
(* returns is_valid=False with exactly one error, of code REQUIRED and     *)
(* field=path, and no type check, transform, custom predicate or child     *)
(* validation runs (the only call made is the validator's own validate);   *)
(* for any other v the validator itself emits no REQUIRED error.           *)
(***************************************************************************)
C2_RequiredGate ==
  (Called /\ validator.required) =>
    IF ret.value = PyNone \/ ret.value = PyStr("")
    THEN /\ ~ret.outcome.raised
         /\ ~ret.outcome.result.is_valid
         /\ Len(ret.outcome.result.errors) = 1
         /\ ret.outcome.result.errors[1].code = "REQUIRED"
         /\ ret.outcome.result.errors[1].field = ret.field_name
         /\ ret.outcome.result.warnings = <<>>
         /\ ret.outcome.calls = <<ValidateCall(validator.kind, ret.field_name)>>
    ELSE HasResult =>
           ErrorsWhere(LAMBDA e : e.code = "REQUIRED" /\ e.field = ret.field_name) = <<>>

\* a required string validator with a transform that would raise has been
\* given the empty string under a path and has answered with the one
\* REQUIRED error
C2_Witness ==
  /\ HasResult
  /\ validator.kind = "String"
  /\ validator.required
  /\ validator.transform = PyFunction("boom")
  /\ ret.value = PyStr("")
  /\ ret.field_name = "data"
  /\ Len(ret.outcome.result.errors) = 1
  /\ ret.outcome.result.errors[1].code = "REQUIRED"

(***************************************************************************)
(* C3.  Optionality gate, optional case: for every validator variant with  *)
(* required=False, validate(v) with v None or the empty string returns     *)
(* is_valid=True with zero errors and zero warnings, whatever other        *)
(* constraints are configured.                                             *)
(***************************************************************************)
C3_OptionalGate ==
  (Called /\ ~validator.required /\ (ret.value = PyNone \/ ret.value = PyStr(""))) =>
    /\ ~ret.outcome.raised
    /\ ret.outcome.result.is_valid
    /\ ret.outcome.result.errors = <<>>
    /\ ret.outcome.result.warnings = <<>>

\* an optional string validator with a minimum length of 3 has accepted
\* the empty string
C3_Witness ==
  /\ HasResult
  /\ validator.kind = "String"
  /\ ~validator.required
  /\ validator.min_length = PyInt(3)
  /\ ret.value = PyStr("")
  /\ ret.outcome.result.is_valid

(***************************************************************************)
(* The paths and the parts of a composite's result that the claims about   *)
(* composites speak of.                                                    *)
(***************************************************************************)
\* the validator called is an array validator and was given a list
ArrayCalledOnList == Called /\ validator.kind = "Array" /\ IsList(ret.value)
\* the validator called is an object validator and was given a dict
ObjectCalledOnDict == Called /\ validator.kind = "Object" /\ IsDict(ret.value)

\* '<parent>[i]', '[i]' at the root, for the i-th item counted from 1
ItemPathOf(i) ==
  IF ret.field_name = "" THEN "[" \o ToString(i - 1) \o "]"
  ELSE ret.field_name \o "[" \o ToString(i - 1) \o "]"

\* '<parent>.<key>', '<key>' at the root
KeyPathOf(name) ==
  IF ret.field_name = "" THEN name ELSE ret.field_name \o "." \o name

\* the input dict has the key
Present(name) == \E j \in 1..Len(ret.value.entries) : ret.value.entries[j].k = PyStr(name)

RECURSIVE Concat(_)
\* the concatenation of a sequence of sequences
Concat(seqs) == IF seqs = <<>> THEN <<>> ELSE Head(seqs) \o Concat(Tail(seqs))

\* seq ends with suffix
EndsWith(seq, suffix) ==
  /\ Len(seq) >= Len(suffix)
  /\ SubSeq(seq, Len(seq) - Len(suffix) + 1, Len(seq)) = suffix

\* sub occurs in the string s
Contains(s, sub) ==
  \E i \in 1..(Len(s) - Len(sub) + 1) : SubSeq(s, i, i + Len(sub) - 1) = sub

(***************************************************************************)
(* C4.  validate never raises on input data: for every validator tree      *)
(* built from the built-in validators and every input value, lists of      *)
(* dicts or lists and dicts with non-string keys included, validate        *)
(* returns a ValidationResult.                                             *)
(***************************************************************************)
C4_NeverRaises == Called => ~ret.outcome.raised

(***************************************************************************)
(* C5.  ArrayValidator never short-circuits: for a list input every item   *)
(* is validated by the item validator, whatever earlier items, the length  *)
(* bounds and the duplicate detection gave, and the errors of the items    *)
(* are merged in index order under the paths '<parent>[i]'.                *)
(***************************************************************************)
C5_ArrayNeverShortCircuits ==
  ArrayCalledOnList =>
    /\ ~ret.outcome.raised
    /\ LET items == ret.value.items
           item_calls ==
             SelectSeq(ret.outcome.calls,
                       LAMBDA c : /\ c.op = "validate"
                                  /\ \E i \in 1..Len(items) : c.field = ItemPathOf(i))
       IN /\ item_calls =
               [i \in 1..Len(items) |->
                  ValidateCall(validator.item_validator.kind, ItemPathOf(i))]
          /\ \E hash_seed \in HashSeeds :
               EndsWith(ret.outcome.result.errors,
                        Concat([i \in 1..Len(items) |->
                                  validate(validator.item_validator, items[i], ItemPathOf(i),
                                           hash_seed).result.errors]))

(***************************************************************************)
(* C6.  Array uniqueness: with unique() set, each index i whose item       *)
(* equals an item at an earlier index yields exactly one DUPLICATE_ITEM    *)
(* error whose field is that item's index path and whose value is the      *)
(* item; an index whose item is new yields none.                           *)
(***************************************************************************)
C6_DuplicateItemAtIndexPath ==
  (ArrayCalledOnList /\ validator.unique /\ HasResult) =>
    \A i \in 1..Len(ret.value.items) :
      LET found == ErrorsWhere(LAMBDA e : /\ e.code = "DUPLICATE_ITEM"
                                          /\ e.field = ItemPathOf(i))
      IN IF \E j \in 1..(i - 1) : PyEq(ret.value.items[j], ret.value.items[i])
         THEN Len(found) = 1 /\ found[1].value = ret.value.items[i]
         ELSE found = <<>>

(***************************************************************************)
(* C7.  ObjectValidator missing fields: for each schema field whose key is *)
(* absent from the input dict, exactly one MISSING_FIELD error is added at *)
(* the child path if the child validator is required and none if it is     *)
(* optional, and the child's validate is not called.                       *)
(***************************************************************************)
C7_MissingFields ==
  ObjectCalledOnDict =>
    /\ ~ret.outcome.raised
    /\ \A i \in 1..Len(validator.schema) :
         LET name == validator.schema[i].name
             missing == ErrorsWhere(LAMBDA e : /\ e.code = "MISSING_FIELD"
                                               /\ e.field = KeyPathOf(name))
         IN ~Present(name) =>
              /\ Len(missing) = IF validator.schema[i].validator.required THEN 1 ELSE 0
              /\ \A n \in 2..Len(ret.outcome.calls) :
                   ~(/\ ret.outcome.calls[n].op = "validate"
                     /\ ret.outcome.calls[n].field = KeyPathOf(name))

(***************************************************************************)
(* C8.  ObjectValidator full aggregation: for a dict input every schema    *)
(* field is checked, whatever earlier fields and strict mode gave, and the *)
(* result's errors are, after the object's own, the concatenation in       *)
(* schema declaration order of each field's errors: all errors of a        *)
(* present child, or its MISSING_FIELD error.                              *)
(***************************************************************************)
C8_FullAggregation ==
  ObjectCalledOnDict =>
    /\ ~ret.outcome.raised
    /\ \E hash_seed \in HashSeeds :
         LET FieldErrors(i) ==
               LET name == validator.schema[i].name
                   child == validator.schema[i].validator
               IN IF Present(name)
                  THEN validate(child, GetItem(ret.value, PyStr(name)), KeyPathOf(name),
                                hash_seed).result.errors
                  ELSE IF child.required
                  THEN <<ValidationError(KeyPathOf(name), "Missing required field: " \o name,
                                         PyNone, ERROR, "MISSING_FIELD")>>
                  ELSE <<>>
             field_errors == Concat([i \in 1..Len(validator.schema) |-> FieldErrors(i)])
             errors == ret.outcome.result.errors
         IN /\ EndsWith(errors, field_errors)
            /\ \A n \in 1..(Len(errors) - Len(field_errors)) :
                 errors[n].code = "UNKNOWN_FIELDS"

(***************************************************************************)
(* C9.  Field paths compose along the validator tree: the field of an      *)
(* error is the concatenation of the keys and indices on the way to the    *)
(* node that raised it, with '.' before an object key except at the root   *)
(* and '[i]' for an array index, for any nesting depth.  Every validate    *)
(* call is made with, and every error carries, the path of a node or of a  *)
(* missing field composed in that way.                                     *)
(***************************************************************************)
RECURSIVE ComposedPaths(_, _, _, _)
\* the paths, composed as the claim says, of the node self given value at
\* path and of everything below it; at_root: no key or index, and no
\* path of the caller's, leads to the node
ComposedPaths(self, value, path, at_root) ==
  {path} \cup
    CASE self.kind = "Object" /\ IsDict(value) ->
           UNION {LET name == self.schema[i].name
                      key_path == IF at_root THEN name ELSE path \o "." \o name
                  IN IF HasKey(value, PyStr(name))
                     THEN ComposedPaths(self.schema[i].validator,
                                        GetItem(value, PyStr(name)), key_path, FALSE)
                     ELSE {key_path} : i \in 1..Len(self.schema)}
      [] self.kind = "Array" /\ IsList(value) ->
           UNION {ComposedPaths(self.item_validator, value.items[i],
                                path \o "[" \o ToString(i - 1) \o "]", FALSE) :
                    i \in 1..Len(value.items)}
      [] OTHER -> {}

C9_PathsCompose ==
  HasResult =>
    LET paths == ComposedPaths(validator, ret.value, ret.field_name, ret.field_name = "")
    IN /\ \A n \in 1..Len(ret.outcome.result.errors) :
            ret.outcome.result.errors[n].field \in paths
       /\ \A n \in 1..Len(ret.outcome.calls) :
            ret.outcome.calls[n].op = "validate" => ret.outcome.calls[n].field \in paths

(***************************************************************************)
(* C10. Strict mode: an ObjectValidator with strict() validating a dict    *)
(* with one or more keys absent from the schema adds exactly one           *)
(* UNKNOWN_FIELDS error at the object's own path, whose message names all  *)
(* such keys, before any per-field error; with no unknown key, or with     *)
(* strict off, it adds none.                                               *)
(***************************************************************************)
C10_StrictMode ==
  ObjectCalledOnDict =>
    /\ ~ret.outcome.raised
    /\ LET unknown == {ret.value.entries[j].k : j \in 1..Len(ret.value.entries)}
                        \ {PyStr(validator.schema[i].name) : i \in 1..Len(validator.schema)}
           own == ErrorsWhere(LAMBDA e : /\ e.code = "UNKNOWN_FIELDS"
                                         /\ e.field = ret.field_name
                                         /\ e.value = ret.value)
       IN IF validator.strict /\ unknown # {}
          THEN /\ Len(own) = 1
               /\ ret.outcome.result.errors[1] = own[1]
               /\ \A k \in unknown : Contains(own[1].message, PyRepr(k))
          ELSE own = <<>>

(***************************************************************************)
(* C11. An exception raised by a user-supplied function during validate is *)
(* never propagated: a raising custom predicate yields is_valid=False with *)
(* exactly one error, of code VALIDATION_ERROR, and a raising transform in *)
(* a String or Number validator yields exactly one error, of code          *)
(* TRANSFORM_ERROR, with no later constraint check run; in both cases the  *)
(* message contains the exception text.                                    *)
(***************************************************************************)
\* the input is neither None nor the empty string
NotAbsent == ret.value # PyNone /\ ret.value # PyStr("")

\* the call reached the transform of a String or Number validator, and the
\* transform raised
TransformRaised ==
  /\ Called
  /\ NotAbsent
  /\ \/ validator.kind = "String" /\ IsStr(ret.value)
     \/ validator.kind = "Number" /\ IsIntOrFloat(ret.value) /\ ~IsBool(ret.value)
  /\ validator.transform # PyNone
  /\ ~ApplyTransform(validator.transform, ret.value).ok

\* the call reached the predicate of a Custom validator, and the predicate
\* raised
PredicateRaised ==
  /\ Called
  /\ NotAbsent
  /\ validator.kind = "Custom"
  /\ ~ApplyPredicate(validator.validation_func, ret.value).ok

C11_UserExceptionsBecomeErrors ==
  /\ TransformRaised =>
       /\ ~ret.outcome.raised
       /\ ~ret.outcome.result.is_valid
       /\ Len(ret.outcome.result.errors) = 1
       /\ ret.outcome.result.errors[1].code = "TRANSFORM_ERROR"
       /\ Contains(ret.outcome.result.errors[1].message,
                   ApplyTransform(validator.transform, ret.value).text)
  /\ PredicateRaised =>
       /\ ~ret.outcome.raised
       /\ ~ret.outcome.result.is_valid
       /\ Len(ret.outcome.result.errors) = 1
       /\ ret.outcome.result.errors[1].code = "VALIDATION_ERROR"
       /\ Contains(ret.outcome.result.errors[1].message,
                   ApplyPredicate(validator.validation_func, ret.value).text)

\* a string validator with a raising transform and a minimum length that
\* the input misses has answered with the one TRANSFORM_ERROR
C11_Witness ==
  /\ TransformRaised
  /\ HasResult
  /\ validator.kind = "String"
  /\ validator.min_length = PyInt(3)
  /\ ret.value = PyStr("ab")
  /\ Len(ret.outcome.result.errors) = 1
  /\ ret.outcome.result.errors[1].code = "TRANSFORM_ERROR"

(***************************************************************************)
(* C12. Number type guard: NumberValidator.validate on a boolean, and on   *)
(* any value that is neither an int nor a float, returns is_valid=False    *)
(* with exactly one error, of code TYPE_ERROR, and none of the             *)
(* integer_only, min, max or allowed-values checks (nor the transform)     *)
(* runs, whatever constraints are configured.                              *)
(***************************************************************************)
\* a Number validator was called on a bool or on a value that is neither
\* int nor float
NumberCalledOnNonNumber ==
  /\ Called
  /\ validator.kind = "Number"
  /\ ret.value.t \notin {"int", "float"}

\* the call returned the one TYPE_ERROR and called nothing else
OnlyTypeError ==
  /\ ~ret.outcome.raised
  /\ ~ret.outcome.result.is_valid
  /\ Len(ret.outcome.result.errors) = 1
  /\ ret.outcome.result.errors[1].code = "TYPE_ERROR"
  /\ ret.outcome.calls = <<ValidateCall(validator.kind, ret.field_name)>>

\* as stated: for every such value, None and the empty string included
C12_NumberTypeGuard == NumberCalledOnNonNumber => OnlyTypeError

\* as amended: for every such value but None and the empty string, which
\* the optionality gate answers before the type guard is reached
C12_NumberTypeGuardNotAbsent == (NumberCalledOnNonNumber /\ NotAbsent) => OnlyTypeError

\* a Number validator with a minimum of 2 has answered True with the one
\* TYPE_ERROR
C12_Witness ==
  /\ NumberCalledOnNonNumber
  /\ validator.min_value = PyInt(2)
  /\ ret.value = PyBool(TRUE)
  /\ OnlyTypeError

(***************************************************************************)
(* C13.  validate leaves the validator tree unchanged and keeps no state   *)
(* between calls: no step of a call changes the tree or a result returned  *)
(* before, and two calls with equal values and the same path return equal  *)
(* results.                                                                *)
(***************************************************************************)
SameArguments(a, b) == PyEq(a.value, b.value) /\ a.field_name = b.field_name

\* == of two lists of ValidationError
SameErrors(a, b) ==
  /\ Len(a) = Len(b)
  /\ \A i \in 1..Len(a) :
       /\ [a[i] EXCEPT !.value = PyNone] = [b[i] EXCEPT !.value = PyNone]
       /\ PyEq(a[i].value, b[i].value)

\* both calls raised the same exception, or returned results that are ==
SameOutcome(a, b) ==
  /\ a.raised = b.raised
  /\ IF a.raised THEN a.exc = b.exc
     ELSE /\ a.result.is_valid = b.result.is_valid
          /\ SameErrors(a.result.errors, b.result.errors)
          /\ SameErrors(a.result.warnings, b.result.warnings)
          /\ PyEq(a.result.data, b.result.data)

Alone(call) == validate(validator, call.value, call.field_name, PYTHONHASHSEED)

C14_ConcurrentCallsAsAlone ==
  \A t \in Threads :
    /\ threads[t].pc = "done" => threads[t].outcome = Alone(threads[t])
    /\ \A i \in 1..Len(threads[t].returned) :
         threads[t].returned[i].outcome = Alone(threads[t].returned[i])

C14_Witness ==
  /\ threads[1].pc = "done"
  /\ threads[1].i > 2
  /\ ~threads[1].outcome.raised
  /\ threads[1].outcome.result.errors # <<>>
  /\ threads[2].pc = "loop"
  /\ threads[2].i > 1
  /\ threads[2].value # threads[1].value
  /\ threads[2].outcome # threads[1].outcome

(***************************************************************************)
(* C15.  A call of required(b), optional(), with_message(m) or             *)
(* transform(f) returns the object it was called on and changes, in the    *)
(* whole heap, only the attribute it names on that object, to the value    *)
(* given whatever the value before; optional() sets what required(False)   *)
(* sets; and every schema that holds the object validates from then on     *)
(* with the object as configured.                                          *)
(***************************************************************************)
Holds(holder, id) ==
  \/ heap[holder].kind = "Array" /\ heap[holder].item_validator = id
  \/ /\ heap[holder].kind = "Object"
     /\ \E i \in 1..Len(heap[holder].schema) : heap[holder].schema[i].validator = id

\* what validate of the object id of the heap h returns for each value
Behaviour(h, id) ==
  [value \in {PyNone} \cup Range(NestedSamples(Tree(h, id))) |->
     validate(Tree(h, id), value, "", PYTHONHASHSEED)]

C15_BuildersMutateInPlace ==
  [][ret'.op = "self" =>
       LET self == ret'.receiver
           attr == CASE ret'.method = "with_message" -> "custom_message"
                     [] ret'.method = "transform" -> "transform"
                     [] OTHER -> "required"
           set == CASE ret'.method = "required" -> ret'.arg.b
                    [] ret'.method = "optional" -> FALSE
                    [] OTHER -> ret'.arg
           configured == [heap EXCEPT ![self] = [@ EXCEPT ![attr] = set]]
       IN /\ ret'.returned = self
          /\ heap' = configured
          /\ \A holder \in Ids :
               Holds(holder, self) => Behaviour(heap', holder) = Behaviour(configured, holder)]_vars

C15_Witness ==
  /\ ret.op = "self"
  /\ ret.method = "optional"
  /\ ret.returned = ret.receiver
  /\ heap[ret.receiver].custom_message = PyStr("another message")
  /\ \E p, q \in Ids :
       /\ p # q
       /\ \A holder \in {p, q} :
            /\ Holds(holder, ret.receiver)
            /\ Behaviour(heap, holder)
                 # Behaviour([heap EXCEPT ![ret.receiver].required = TRUE], holder)

(***************************************************************************)
(* C16.  Every error of every result that a tree of built-in validators    *)
(* returns has one of the twenty error codes and the level ERROR.          *)
(***************************************************************************)
ErrorCodes ==
  {"REQUIRED", "TYPE_ERROR", "TRANSFORM_ERROR", "MIN_LENGTH", "MAX_LENGTH",
   "PATTERN_MISMATCH", "INVALID_VALUE", "MIN_VALUE", "MAX_VALUE", "INTEGER_REQUIRED",
   "DATE_FORMAT_ERROR", "MIN_DATE", "MAX_DATE", "UNKNOWN_FIELDS", "MISSING_FIELD",
   "DUPLICATE_ITEM", "INVALID_IP", "INVALID_PHONE", "CUSTOM_VALIDATION", "VALIDATION_ERROR"}

C16_ErrorsAreCoded ==
  HasResult =>
    \A i \in 1..Len(ret.outcome.result.errors) :
      /\ ret.outcome.result.errors[i].code \in ErrorCodes
      /\ ret.outcome.result.errors[i].level = ERROR

\* a result with errors of two different codes
C16_Witness ==
  /\ HasResult
  /\ \E i, j \in 1..Len(ret.outcome.result.errors) :
       /\ ret.outcome.result.errors[i].code = "MISSING_FIELD"
       /\ ret.outcome.result.errors[j].code = "UNKNOWN_FIELDS"

(***************************************************************************)
(* C17.  add_error appends exactly one entry of level ERROR at the end of  *)
(* errors, sets is_valid to False and leaves warnings as they were;        *)
(* add_warning appends exactly one entry of level WARNING at the end of    *)
(* warnings and leaves is_valid and errors as they were; a valid result    *)
(* stays valid under add_warning and under the merge of a child's          *)
(* warnings.                                                               *)
(***************************************************************************)
C17_AddErrorAddWarning ==
  [][/\ ret'.op = "add_error" =>
          /\ ret'.result.errors = Append(ret.result.errors, ret'.entry)
          /\ ret'.entry.level = ERROR
          /\ ~ret'.result.is_valid
          /\ ret'.result.warnings = ret.result.warnings
     /\ ret'.op = "add_warning" =>
          /\ ret'.result.warnings = Append(ret.result.warnings, ret'.entry)
          /\ ret'.entry.level = WARNING
          /\ ret'.result.is_valid = ret.result.is_valid
          /\ ret'.result.errors = ret.result.errors
     /\ (ret'.op = "merge" /\ ret'.entry.is_valid /\ ret.result.is_valid) =>
          /\ ret'.result.is_valid
          /\ ret'.result.warnings = ret.result.warnings \o ret'.entry.warnings]_vars

\* a result that is still valid after add_warning and the merge of a child's
\* warning
C17_Witness ==
  /\ ret.op = "add_warning"
  /\ ret.result.is_valid
  /\ ret.result.errors = <<>>
  /\ Len(ret.result.warnings) = 2
  /\ ret.result.warnings[1].field = "a.b"
  /\ ret.result.warnings[2] = ret.entry

(***************************************************************************)
(* C18.  For every leaf validator with transform(f) configured, validate   *)
(* applies f to an input that is not absent before the checks of the       *)
(* validator's type, and the checks are made on what f returned: the       *)
(* result is valid exactly if the validator without the transform accepts  *)
(* f's result.                                                             *)
(***************************************************************************)
LeafWithTransformCalled ==
  /\ Called
  /\ validator.kind \in {"String", "Number", "Boolean", "Date", "IPAddress", "PhoneNumber",
                         "Custom"}
  /\ validator.transform # PyNone
  /\ NotAbsent

C18_TransformBeforeChecks ==
  LeafWithTransformCalled =>
    LET transformed == ApplyTransform(validator.transform, ret.value)
    IN /\ \E i \in 1..Len(ret.outcome.calls) :
            ret.outcome.calls[i] = UserCall(validator.transform.name, ret.field_name)
       /\ transformed.ok =>
            /\ ~ret.outcome.raised
            /\ ret.outcome.result.is_valid
                 = validate([validator EXCEPT !.transform = PyNone], transformed.value,
                            ret.field_name, PYTHONHASHSEED).result.is_valid

(***************************************************************************)
(* C19.  Every error a leaf validator reports carries as its value the     *)
(* input that validate was called with, as it was passed: not transformed  *)
(* and not trimmed.                                                        *)
(***************************************************************************)
LeafKinds == {"String", "Number", "Boolean", "Date", "IPAddress", "PhoneNumber", "Custom"}

C19_ErrorValueIsInput ==
  (HasResult /\ validator.kind \in LeafKinds) =>
    \A i \in 1..Len(ret.outcome.result.errors) :
      ret.outcome.result.errors[i].value = ret.value

(***************************************************************************)
(* C20.  For every variant that reports TYPE_ERROR (String, Number,        *)
(* Boolean, Date, Object, Array, IPAddress, PhoneNumber), after            *)
(* with_message(m) the TYPE_ERROR the validator reports for its input has  *)
(* the message m.                                                          *)
(***************************************************************************)
C20_CustomMessageOnTypeError ==
  (HasResult /\ validator.custom_message # PyNone) =>
    \A i \in 1..Len(ret.outcome.result.errors) :
      LET error == ret.outcome.result.errors[i]
      IN (error.code = "TYPE_ERROR" /\ error.field = ret.field_name) =>
           error.message = validator.custom_message.s

(***************************************************************************)
(* C21.  The pattern check of a String validator is anchored at the start  *)
(* of the string only: a string passes when the pattern matches beginning  *)
(* at index 0, whether or not the match reaches the end, and otherwise     *)
(* gets one PATTERN_MISMATCH error; ^\d+$ rejects "123abc"; the check is   *)
(* made on the value after the transform and the trim.                     *)
(***************************************************************************)
\* a String validator with a pattern was called on a string that reaches
\* the pattern check
PatternChecked ==
  /\ Called
  /\ validator.kind = "String"
  /\ validator.pattern # PyNone
  /\ IsStr(ret.value)
  /\ NotAbsent
  /\ validator.transform # PyNone => ApplyTransform(validator.transform, ret.value).ok

\* the string the checks are made on: the input after transform and trim
AfterTransformAndTrim ==
  LET transformed == IF validator.transform # PyNone
                     THEN ApplyTransform(validator.transform, ret.value).value.s
                     ELSE ret.value.s
  IN IF validator.trim THEN Strip(transformed) ELSE transformed

\* some prefix of s, from index 0, is a run of digits; ^\d+$ needs the run
\* to be all of s
MatchesFromStart(pattern, s) ==
  \E k \in 1..Len(s) :
    /\ AllDigits(SubSeq(s, 1, k))
    /\ pattern = DigitsPattern => k = Len(s)

C21_PatternAnchoredAtStart ==
  PatternChecked =>
    LET mismatches == ErrorsWhere(LAMBDA e : e.code = "PATTERN_MISMATCH")
    IN /\ ~ret.outcome.raised
       /\ IF MatchesFromStart(validator.pattern.s, AfterTransformAndTrim)
          THEN mismatches = <<>>
          ELSE Len(mismatches) = 1 /\ mismatches[1].field = ret.field_name
       /\ (validator.pattern.s = DigitsPattern /\ AfterTransformAndTrim = "123abc") =>
            Len(mismatches) = 1

\* a trimming validator checked ^\d+$ against "123abc": the digits start at
\* index 0 but the match cannot reach the end, and the one PATTERN_MISMATCH
\* is reported
C21_Witness ==
  /\ PatternChecked
  /\ validator.pattern.s = DigitsPattern
  /\ validator.trim
  /\ ret.value = PyStr("123abc")
  /\ Len(ret.outcome.result.errors) = 1
  /\ ret.outcome.result.errors[1].code = "PATTERN_MISMATCH"

(***************************************************************************)
(* C22.  StringValidator runs its checks in the order type, transform,     *)
(* trim, min length, max length, pattern, allowed values: an input that is *)
(* not a string gets exactly one TYPE_ERROR and nothing else; for a string *)
(* each of the four constraint checks is made, whatever the others found,  *)
(* on the transformed and then trimmed value, and the errors come in the   *)
(* order MIN_LENGTH, MAX_LENGTH, PATTERN_MISMATCH, INVALID_VALUE.          *)
(***************************************************************************)
\* the codes the four constraint checks of the validator give for s, in the
\* order of the checks
StringConstraintCodes(s) ==
  LET allowed == validator.allowed_values.items
      Same(a, b) == IF validator.case_sensitive THEN a = b ELSE Lower(a) = Lower(b)
  IN (IF validator.min_length # PyNone /\ Len(s) < validator.min_length.n
      THEN <<"MIN_LENGTH">> ELSE <<>>)
       \o (IF validator.max_length # PyNone /\ Len(s) > validator.max_length.n
           THEN <<"MAX_LENGTH">> ELSE <<>>)
       \o (IF validator.pattern # PyNone /\ ~MatchesFromStart(validator.pattern.s, s)
           THEN <<"PATTERN_MISMATCH">> ELSE <<>>)
       \o (IF validator.allowed_values # PyNone
              /\ \A i \in 1..Len(allowed) : ~Same(allowed[i].s, s)
           THEN <<"INVALID_VALUE">> ELSE <<>>)

\* what the call returned is what the order of the checks gives
StringChecksInOrder ==
  /\ ~IsStr(ret.value) => OnlyTypeError
  /\ (IsStr(ret.value)
        /\ (validator.transform # PyNone => ApplyTransform(validator.transform, ret.value).ok)) =>
       /\ ~ret.outcome.raised
       /\ [i \in 1..Len(ret.outcome.result.errors) |-> ret.outcome.result.errors[i].code]
            = StringConstraintCodes(AfterTransformAndTrim)
       /\ \A i \in 1..Len(ret.outcome.result.errors) :
            ret.outcome.result.errors[i].value = PyStr(AfterTransformAndTrim)

\* as stated: for every input, None and the empty string included
C22_StringCheckOrder ==
  (Called /\ validator.kind = "String") => StringChecksInOrder

\* for every input that passes the optionality gate
C22_StringCheckOrderNotAbsent ==
  (Called /\ validator.kind = "String" /\ NotAbsent) => StringChecksInOrder

\* "AB" fails all four checks of a case-sensitive validator, and the four
\* errors are reported in the order of the checks
C22_Witness ==
  /\ HasResult
  /\ validator.kind = "String"
  /\ ret.value = PyStr("AB")
  /\ [i \in 1..Len(ret.outcome.result.errors) |-> ret.outcome.result.errors[i].code]
       = <<"MIN_LENGTH", "MAX_LENGTH", "PATTERN_MISMATCH", "INVALID_VALUE">>

(***************************************************************************)
(* C23.  NumberValidator accumulates all constraint violations after the   *)
(* type check: integer_only, min_value, max_value and allowed_values are   *)
(* each evaluated whatever the earlier ones found, and the errors come in  *)
(* the order INTEGER_REQUIRED, MIN_VALUE, MAX_VALUE, INVALID_VALUE; a      *)
(* non-integer that is also out of range gets two errors.                  *)
(***************************************************************************)
\* a Number validator was called on a number that passes the type check,
\* and the transform, if there is one, returned
NumberChecked ==
  /\ Called
  /\ validator.kind = "Number"
  /\ ret.value.t \in {"int", "float"}
  /\ validator.transform # PyNone => ApplyTransform(validator.transform, ret.value).ok

\* the number the checks are made on, in halves
CheckedHalves ==
  LET checked == IF validator.transform # PyNone
                 THEN ApplyTransform(validator.transform, ret.value).value
                 ELSE ret.value
  IN [int |-> checked.t = "int", halves |-> IF checked.t = "int" THEN 2 * checked.n ELSE checked.h]

\* the codes the four constraint checks of the validator give, in the
\* order of the checks
NumberConstraintCodes ==
  LET allowed == validator.allowed_values.items
  IN (IF validator.integer_only /\ ~CheckedHalves.int THEN <<"INTEGER_REQUIRED">> ELSE <<>>)
       \o (IF validator.min_value # PyNone /\ CheckedHalves.halves < 2 * validator.min_value.n
           THEN <<"MIN_VALUE">> ELSE <<>>)
       \o (IF validator.max_value # PyNone /\ CheckedHalves.halves > 2 * validator.max_value.n
           THEN <<"MAX_VALUE">> ELSE <<>>)
       \o (IF validator.allowed_values # PyNone
              /\ \A i \in 1..Len(allowed) : CheckedHalves.halves # 2 * allowed[i].n
           THEN <<"INVALID_VALUE">> ELSE <<>>)

C23_NumberAccumulates ==
  NumberChecked =>
    /\ ~ret.outcome.raised
    /\ [i \in 1..Len(ret.outcome.result.errors) |-> ret.outcome.result.errors[i].code]
         = NumberConstraintCodes
    /\ ret.outcome.result.is_valid = (NumberConstraintCodes = <<>>)

\* 1.5 is not an integer and is above the maximum 1: both errors are
\* reported, in the order of the checks
C23_Witness ==
  /\ NumberChecked
  /\ ret.value = PyFloat(3)
  /\ validator.integer_only
  /\ validator.max_value = PyInt(1)
  /\ [i \in 1..Len(ret.outcome.result.errors) |-> ret.outcome.result.errors[i].code]
       = <<"INTEGER_REQUIRED", "MAX_VALUE">>

(***************************************************************************)
(* C24.  CustomValidator takes what the validation function returned by    *)
(* its type: False, a non-empty string or a pair (False, message) each     *)
(* give exactly one CUSTOM_VALIDATION error, with the returned string or   *)
(* message as its message when one is given; True, the empty string or a   *)
(* pair (True, _) give a valid result; a value of any other shape gives    *)
(* exactly one VALIDATION_ERROR error.                                     *)
(***************************************************************************)
\* the validation function of a Custom validator was called and returned
PredicateReturned ==
  /\ Called
  /\ validator.kind = "Custom"
  /\ NotAbsent
  /\ ApplyPredicate(validator.validation_func, ret.value).ok

C24_CustomReturnByType ==
  PredicateReturned =>
    LET returned == ApplyPredicate(validator.validation_func, ret.value).value
        pair == returned.t = "tuple" /\ Len(returned.items) = 2
        rejects == \/ returned = PyBool(FALSE)
                   \/ returned.t = "str" /\ returned.s # ""
                   \/ pair /\ returned.items[1] = PyBool(FALSE)
        accepts == \/ returned = PyBool(TRUE)
                   \/ returned = PyStr("")
                   \/ pair /\ returned.items[1] = PyBool(TRUE)
        errors == ret.outcome.result.errors
    IN /\ ~ret.outcome.raised
       /\ rejects =>
            /\ Len(errors) = 1
            /\ errors[1].code = "CUSTOM_VALIDATION"
            /\ returned.t = "str" => errors[1].message = returned.s
            /\ (pair /\ returned.items[2] # PyStr("")) => errors[1].message = returned.items[2].s
       /\ accepts => ret.outcome.result.is_valid /\ errors = <<>>
       /\ (~rejects /\ ~accepts) =>
            Len(errors) = 1 /\ errors[1].code = "VALIDATION_ERROR"

\* the function returned the pair (False, "bad pair"), and the one
\* CUSTOM_VALIDATION error carries the message of the pair
C24_Witness ==
  /\ PredicateReturned
  /\ validator.validation_func = PyFunction("pair_false")
  /\ validator.custom_message # PyNone
  /\ Len(ret.outcome.result.errors) = 1
  /\ ret.outcome.result.errors[1].code = "CUSTOM_VALIDATION"
  /\ ret.outcome.result.errors[1].message = "bad pair"

(***************************************************************************)
(* C25.  BooleanValidator accepts a value that is not absent if and only   *)
(* if it is True or False or a member of the configured truthy or falsy    *)
(* values, and otherwise returns exactly one TYPE_ERROR; truthy_values()   *)
(* and falsy_values() replace the default values, they do not add to them; *)
(* the optionality gate runs first, so a required Boolean validator        *)
(* reports the empty string as REQUIRED although it is a default falsy     *)
(* value.                                                                  *)
(***************************************************************************)
\* v == x for some x of values
MemberOf(v, values) == \E i \in 1..Len(values) : PyEq(v, values[i])

C25_BooleanAcceptance ==
  validator.kind = "Boolean" =>
    /\ validator.truthy_values \in {BooleanValidator.truthy_values, <<PyStr("ab")>>}
    /\ validator.falsy_values \in {BooleanValidator.falsy_values, <<PyStr("ab")>>}
    /\ (Called /\ NotAbsent) =>
         /\ ~ret.outcome.raised
         /\ IF \/ ret.value \in {PyBool(TRUE), PyBool(FALSE)}
               \/ MemberOf(ret.value, validator.truthy_values)
               \/ MemberOf(ret.value, validator.falsy_values)
            THEN ret.outcome.result.is_valid /\ ret.outcome.result.errors = <<>>
            ELSE /\ Len(ret.outcome.result.errors) = 1
                 /\ ret.outcome.result.errors[1].code = "TYPE_ERROR"
    /\ (Called /\ ret.value = PyStr("") /\ validator.required) =>
         /\ ~ret.outcome.raised
         /\ Len(ret.outcome.result.errors) = 1
         /\ ret.outcome.result.errors[1].code = "REQUIRED"

\* after truthy_values(["ab"]) the default truthy value "yes" is rejected
\* with the one TYPE_ERROR
C25_Witness ==
  /\ HasResult
  /\ validator.kind = "Boolean"
  /\ validator.truthy_values = <<PyStr("ab")>>
  /\ ret.value = PyStr("yes")
  /\ Len(ret.outcome.result.errors) = 1
  /\ ret.outcome.result.errors[1].code = "TYPE_ERROR"

(***************************************************************************)
(* C26.  In an ObjectValidator a schema key that the input holds with the  *)
(* value None or "" is present, not missing: the child's optionality gate  *)
(* decides, so a required child gives one REQUIRED error at the child's    *)
(* path and never MISSING_FIELD, and an optional child gives no error;     *)
(* MISSING_FIELD is reported only when the key itself is absent.           *)
(***************************************************************************)
\* the input dict holds the key with an absent value
PresentButAbsent(name) ==
  \E j \in 1..Len(ret.value.entries) :
    /\ ret.value.entries[j].k = PyStr(name)
    /\ ret.value.entries[j].v \in {PyNone, PyStr("")}

C26_PresentKeyAbsentValue ==
  ObjectCalledOnDict =>
    \A i \in 1..Len(validator.schema) :
      LET name == validator.schema[i].name
          child == validator.schema[i].validator
          here == ErrorsWhere(LAMBDA e : e.field = KeyPathOf(name))
      IN /\ PresentButAbsent(name) =>
              /\ ~ret.outcome.raised
              /\ IF child.required
                 THEN Len(here) = 1 /\ here[1].code = "REQUIRED"
                 ELSE here = <<>>
         /\ (Present(name) /\ ~ret.outcome.raised) =>
              \A n \in 1..Len(here) : here[n].code # "MISSING_FIELD"

MaxAttacks == 3

\* BoardPosition.to_string_coordinate: f"{self.row}{self.column}"
to_string_coordinate(self) == ToString(self.row) \o ToString(self.column)

\* BoardPosition.from_string_coordinate, for the two-digit coordinates that
\* to_string_coordinate makes of the positions of a board of at most 10 by 10
from_string_coordinate(coordinate) ==
  [row |-> ToInt(CharAt(coordinate, 1)), column |-> ToInt(CharAt(coordinate, 2))]

\* up, down, left, right
get_adjacent_positions(self) ==
  <<[row |-> self.row - 1, column |-> self.column],
    [row |-> self.row + 1, column |-> self.column],
    [row |-> self.row, column |-> self.column - 1],
    [row |-> self.row, column |-> self.column + 1]>>

is_position_within_bounds(self, board_position) ==
  /\ 0 <= board_position.row /\ board_position.row < self.board_size
  /\ 0 <= board_position.column /\ board_position.column < self.board_size

update_cell_content(self, board_position, new_content) ==
  IF is_position_within_bounds(self, board_position)
  THEN [self EXCEPT !.game_grid[board_position.row][board_position.column] = new_content]
  ELSE self

\* the ship joins deployed_ships; its cells are written to the grid only
\* when make_visible is set
deploy_ship(self, ship, make_visible) ==
  LET appended == [self EXCEPT !.deployed_ships = Append(@, ship)]
      RECURSIVE mark(_, _)
      mark(board, i) ==
        IF i > Len(ship.positions) THEN board
        ELSE mark(update_cell_content(board, from_string_coordinate(ship.positions[i]), "S"),
                  i + 1)
  IN IF make_visible THEN mark(appended, 1) ELSE appended

calculate_ship_positions(start_position, ship_length, orientation) ==
  [i \in 1..ship_length |->
     IF orientation = "horizontal"
     THEN [row |-> start_position.row, column |-> start_position.column + (i - 1)]
     ELSE [row |-> start_position.row + (i - 1), column |-> start_position.column]]

\* every cell of the ship is on the board and reads as water in the grid
can_accommodate_ship(self, start_position, ship_length, orientation) ==
  LET ship_positions == calculate_ship_positions(start_position, ship_length, orientation)
      get_cell_content(board_position) ==
        IF is_position_within_bounds(self, board_position)
        THEN self.game_grid[board_position.row][board_position.column]
        ELSE ""
  IN \A i \in 1..ship_length :
       /\ is_position_within_bounds(self, ship_positions[i])
       /\ get_cell_content(ship_positions[i]) = "~"

\* The boards a call that returns True may leave: one for each orientation
\* and random start position that can_accommodate_ship accepts.  A call
\* whose attempts all fail returns False and leaves the board as it was.
place_ship_at_random_location(self, ship_length, make_visible) ==
  LET generate_random_start_position(orientation) ==
        LET max_row == IF orientation = "horizontal" THEN self.board_size - 1
                       ELSE self.board_size - ship_length
            max_col == IF orientation = "horizontal" THEN self.board_size - ship_length
                       ELSE self.board_size - 1
        IN {[row |-> r, column |-> c] : r \in 0..max_row, c \in 0..max_col}
      Ship(board_positions) ==
        [positions |-> board_positions,
         hit_status |-> [i \in 1..Len(board_positions) |-> ""]]
      attempts == UNION {{[orientation |-> o, start_position |-> p] :
                            p \in generate_random_start_position(o)} :
                         o \in {"horizontal", "vertical"}}
  IN {deploy_ship(self,
                  Ship([i \in 1..ship_length |->
                          to_string_coordinate(
                            calculate_ship_positions(a.start_position, ship_length,
                                                     a.orientation)[i])]),
                  make_visible) :
        a \in {x \in attempts :
                 can_accommodate_ship(self, x.start_position, ship_length, x.orientation)}}

\* The boards the loop may end with.  A call of
\* place_ship_at_random_location that returns False changes nothing and the
\* loop calls again, so where no placement is left the loop never ends and
\* the set is empty.
deploy_player_fleet(self, target_board, make_ships_visible) ==
  LET RECURSIVE loop(_, _)
      loop(board, successful_deployments) ==
        IF successful_deployments >= self.ships_per_player THEN {board}
        ELSE UNION {loop(placed, successful_deployments + 1) :
                      placed \in place_ship_at_random_location(
                                   board, self.individual_ship_length, make_ships_visible)}
  IN loop(target_board, 0)

\* The first ship that has the cell and has not been hit there takes the
\* hit (Ship.attempt_hit) and the cell becomes 'X'; without one the cell
\* becomes 'O'.
process_incoming_attack(self, target_coordinate) ==
  LET target_position == from_string_coordinate(target_coordinate)
      index(ship) == CHOOSE i \in 1..Len(ship.positions) :
                       /\ ship.positions[i] = target_coordinate
                       /\ \A j \in 1..(i - 1) : ship.positions[j] # target_coordinate
      attempt_hit(ship) ==
        /\ target_coordinate \in Range(ship.positions)
        /\ ship.hit_status[index(ship)] # "hit"
      struck == {k \in 1..Len(self.deployed_ships) : attempt_hit(self.deployed_ships[k])}
  IN IF struck # {} THEN
       LET k == CHOOSE x \in struck : \A y \in struck : x <= y
           ship == [self.deployed_ships[k] EXCEPT
                      !.hit_status[index(self.deployed_ships[k])] = "hit"]
       IN [board |-> update_cell_content([self EXCEPT !.deployed_ships[k] = ship],
                                         target_position, "X"),
           hit_successful |-> TRUE,
           ship_destroyed |-> \A i \in 1..Len(ship.hit_status) : ship.hit_status[i] = "hit"]
     ELSE [board |-> update_cell_content(self, target_position, "O"),
           hit_successful |-> FALSE,
           ship_destroyed |-> FALSE]

\* Player.record_attack
record_attack(self, attack_coordinate) ==
  IF attack_coordinate \notin Range(self.attack_history)
  THEN [self EXCEPT !.attack_history = Append(@, attack_coordinate)]
  ELSE self

\* generate_random_attack without the look at attack_history
generate_random_attack_any_cell(self, target_board) ==
  {to_string_coordinate([row |-> r, column |-> c]) :
     r \in 0..(target_board.board_size - 1), c \in 0..(target_board.board_size - 1)}

\* The coordinates the loop may return: the cells of the target board that
\* are not in attack_history.  With every cell attacked it never returns.
generate_random_attack(self, target_board) ==
  {to_string_coordinate([row |-> r, column |-> c]) :
     r \in 0..(target_board.board_size - 1), c \in 0..(target_board.board_size - 1)}
    \ Range(self.attack_history)

\* The pairs of the player afterwards and the coordinate returned.
RECURSIVE get_next_priority_target(_, _)
get_next_priority_target(self, target_board) ==
  IF self.priority_target_queue # <<>> THEN
    LET next_target == Head(self.priority_target_queue)
        popped == [self EXCEPT !.priority_target_queue = Tail(@)]
    IN IF next_target \notin Range(self.attack_history)
       THEN {[player |-> popped, attack_coordinate |-> next_target]}
       ELSE get_next_priority_target(popped, target_board)
  ELSE
    LET hunting == [self EXCEPT !.current_cpu_mode = "hunt"]
    IN {[player |-> hunting, attack_coordinate |-> c] :
          c \in generate_random_attack(hunting, target_board)}

generate_attack_coordinate(self, target_board) ==
  IF self.current_cpu_mode = "target" /\ Len(self.priority_target_queue) > 0
  THEN get_next_priority_target(self, target_board)
  ELSE {[player |-> self, attack_coordinate |-> c] :
          c \in generate_random_attack(self, target_board)}

\* switch_to_target_mode without the look at the queue
switch_to_target_mode_requeue(self, hit_coordinate, target_board) ==
  LET adjacent_positions == get_adjacent_positions(from_string_coordinate(hit_coordinate))
      RECURSIVE loop(_, _)
      loop(queue, i) ==
        IF i > Len(adjacent_positions) THEN queue
        ELSE IF /\ is_position_within_bounds(target_board, adjacent_positions[i])
                /\ to_string_coordinate(adjacent_positions[i]) \notin Range(self.attack_history)
        THEN loop(Append(queue, to_string_coordinate(adjacent_positions[i])), i + 1)
        ELSE loop(queue, i + 1)
  IN [self EXCEPT !.current_cpu_mode = "target",
                  !.priority_target_queue = loop(@, 1)]

switch_to_target_mode(self, hit_coordinate, target_board) ==
  LET adjacent_positions == get_adjacent_positions(from_string_coordinate(hit_coordinate))
      RECURSIVE loop(_, _)
      loop(queue, i) ==
        IF i > Len(adjacent_positions) THEN queue
        ELSE IF /\ is_position_within_bounds(target_board, adjacent_positions[i])
                /\ to_string_coordinate(adjacent_positions[i]) \notin Range(self.attack_history)
                /\ to_string_coordinate(adjacent_positions[i]) \notin Range(queue)
        THEN loop(Append(queue, to_string_coordinate(adjacent_positions[i])), i + 1)
        ELSE loop(queue, i + 1)
  IN [self EXCEPT !.current_cpu_mode = "target",
                  !.priority_target_queue = loop(@, 1)]

process_attack_outcome(self, attack_coordinate, was_hit, ship_destroyed, target_board) ==
  IF was_hit /\ ~ship_destroyed THEN switch_to_target_mode(self, attack_coordinate, target_board)
  ELSE IF ship_destroyed THEN
    \* _switch_to_hunt_mode
    [self EXCEPT !.current_cpu_mode = "hunt", !.priority_target_queue = <<>>]
  ELSE self

\* the CPU player is built on the computer's own board and reads the board
\* size from it
GameRulesEngine(board_dimensions, fleet_size, vessel_length) ==
  LET GameBoard(size) ==
        [board_size |-> size,
         game_grid |-> [row \in 0..(size - 1) |-> [column \in 0..(size - 1) |-> "~"]],
         deployed_ships |-> <<>>]
  IN
  [board_dimensions |-> board_dimensions,
   ships_per_player |-> fleet_size,
   individual_ship_length |-> vessel_length,
   human_player_board |-> GameBoard(board_dimensions),
   computer_player_board |-> GameBoard(board_dimensions),
   human_combatant |-> [attack_history |-> <<>>],
   artificial_intelligence_opponent |->
     [attack_history |-> <<>>, current_cpu_mode |-> "hunt", priority_target_queue |-> <<>>]]

\* commence_game_session calls it once, before the first turn
initialize_game_state ==
  /\ ret = NoReturn
  /\ \E human \in deploy_player_fleet(game_rules, game_rules.human_player_board, TRUE),
        computer \in deploy_player_fleet(game_rules, game_rules.computer_player_board, FALSE) :
       game_rules' = [game_rules EXCEPT !.human_player_board = human,
                                        !.computer_player_board = computer]
  /\ ret' = [op |-> "initialize_game_state"]
  /\ UNCHANGED <<validator, PYTHONHASHSEED, threads, heap>>

execute_human_player_attack ==
  /\ ret # NoReturn
  \* the human player enters the centre cell
  /\ \E target_coordinate \in {"11"} :
       IF target_coordinate \in Range(game_rules.human_combatant.attack_history) THEN
         /\ ret' = [op |-> "execute_human_player_attack", returned |-> FALSE]
         /\ UNCHANGED game_rules
       ELSE
         LET attack == process_incoming_attack(game_rules.computer_player_board,
                                               target_coordinate)
         IN /\ game_rules' =
                 [game_rules EXCEPT
                    !.human_combatant = record_attack(@, target_coordinate),
                    !.computer_player_board = attack.board]
            /\ ret' = [op |-> "execute_human_player_attack", returned |-> TRUE]
  /\ UNCHANGED <<validator, PYTHONHASHSEED, threads, heap>>

\* ret keeps the player as generate_attack_coordinate found it (generating)
\* and as process_attack_outcome found it (recorded)
execute_computer_player_attack ==
  /\ ret # NoReturn
  /\ Len(game_rules.artificial_intelligence_opponent.attack_history) < MaxAttacks
  /\ \E generated \in generate_attack_coordinate(game_rules.artificial_intelligence_opponent,
                                                 game_rules.computer_player_board) :
       LET attack_coordinate == generated.attack_coordinate
           recorded == record_attack(generated.player, attack_coordinate)
           attack == process_incoming_attack(game_rules.human_player_board, attack_coordinate)
       IN /\ game_rules' =
               [game_rules EXCEPT
                  !.human_player_board = attack.board,
                  !.artificial_intelligence_opponent =
                    process_attack_outcome(recorded, attack_coordinate, attack.hit_successful,
                                           attack.ship_destroyed,
                                           game_rules.computer_player_board)]
          /\ ret' = [op |-> "execute_computer_player_attack",
                     attack_coordinate |-> attack_coordinate,
                     attack_successful |-> attack.hit_successful,
                     ship_eliminated |-> attack.ship_destroyed,
                     generating |-> game_rules.artificial_intelligence_opponent,
                     recorded |-> recorded]
  /\ UNCHANGED <<validator, PYTHONHASHSEED, threads, heap>>

InitGame ==
  /\ validator = StringValidator
  /\ ret = NoReturn
  /\ PYTHONHASHSEED = 0
  /\ threads = [t \in Threads |-> Idle(<<>>)]
  /\ heap = [id \in Ids |-> Free]
  /\ game_rules = GameRulesEngine(3, 2, 3)

NextGame ==
  \/ initialize_game_state
  \/ execute_human_player_attack
  \/ execute_computer_player_attack

SpecGame == InitGame /\ [][NextGame]_vars

(***************************************************************************)
(* Claims about the board game.                                            *)
(***************************************************************************)
\* the cells of a board by coordinate
BoardCells(board) ==
  {to_string_coordinate([row |-> r, column |-> c]) :
     r \in 0..(board.board_size - 1), c \in 0..(board.board_size - 1)}

\* no cell belongs to two deployed ships and every ship cell is on the board
FleetInPlace(board) ==
  /\ \A i, j \in 1..Len(board.deployed_ships) :
       i # j => Range(board.deployed_ships[i].positions)
                  \cap Range(board.deployed_ships[j].positions) = {}
  /\ \A i \in 1..Len(board.deployed_ships) :
       Range(board.deployed_ships[i].positions) \subseteq BoardCells(board)

\* C28: after initialize_game_state, on the human board and on the
\* computer board, no board cell belongs to two deployed ships and every
\* ship cell is within the board bounds.
C28_FleetPlacement ==
  ret # NoReturn =>
    /\ FleetInPlace(game_rules.human_player_board)
    /\ FleetInPlace(game_rules.computer_player_board)

\* a sequence without a repeated element
NoRepeats(seq) == \A i, j \in 1..Len(seq) : i # j => seq[i] # seq[j]

\* C29: the coordinate that generate_attack_coordinate returned to
\* execute_computer_player_attack was not in the CPU's attack_history at that
\* moment, attack_history grew by that coordinate alone, it never holds a
\* coordinate twice, and record_attack of a coordinate it holds changes
\* nothing.
C29_CPUNeverRepeats ==
  LET cpu == game_rules.artificial_intelligence_opponent
  IN /\ NoRepeats(cpu.attack_history)
     /\ \A c \in Range(cpu.attack_history) : record_attack(cpu, c) = cpu
     /\ ret.op = "execute_computer_player_attack" =>
          /\ ret.attack_coordinate \notin Range(ret.generating.attack_history)
          /\ cpu.attack_history = Append(ret.generating.attack_history, ret.attack_coordinate)

\* the third attack of the CPU came from the priority queue in target mode,
\* after a first attack in hunt mode
C29_Witness ==
  /\ ret.op = "execute_computer_player_attack"
  /\ Len(game_rules.artificial_intelligence_opponent.attack_history) = MaxAttacks
  /\ ret.generating.current_cpu_mode = "target"
  /\ ret.generating.priority_target_queue # <<>>
  /\ ret.attack_coordinate = Head(ret.generating.priority_target_queue)

\* the orthogonal neighbours of a coordinate that are on the board
NeighboursOnBoard(coordinate) ==
  LET hit == from_string_coordinate(coordinate)
      size == game_rules.board_dimensions
  IN {to_string_coordinate([row |-> r, column |-> c]) : <<r, c>> \in
        {rc \in (0..(size - 1)) \X (0..(size - 1)) :
           \/ rc[2] = hit.column /\ (rc[1] = hit.row - 1 \/ rc[1] = hit.row + 1)
           \/ rc[1] = hit.row /\ (rc[2] = hit.column - 1 \/ rc[2] = hit.column + 1)}}

\* C30: process_attack_outcome after a hit that does not destroy the ship
\* sets the mode to TARGET and appends to the priority queue exactly the
\* neighbours of the hit that are on the board, not attacked and not
\* queued, each once; after a hit that destroys a ship it sets the mode to
\* HUNT and empties the queue; after a miss it leaves mode and queue as they
\* were; and mode HUNT implies an empty queue in every state.
C30_CPUModeMachine ==
  LET cpu == game_rules.artificial_intelligence_opponent
  IN /\ cpu.current_cpu_mode = "hunt" => cpu.priority_target_queue = <<>>
     /\ ret.op = "execute_computer_player_attack" =>
          LET found == ret.recorded
              expected == (NeighboursOnBoard(ret.attack_coordinate)
                             \ Range(found.attack_history))
                            \ Range(found.priority_target_queue)
              kept == Len(found.priority_target_queue)
          IN IF ret.attack_successful /\ ~ret.ship_eliminated THEN
               /\ cpu.current_cpu_mode = "target"
               /\ Len(cpu.priority_target_queue) = kept + Cardinality(expected)
               /\ SubSeq(cpu.priority_target_queue, 1, kept) = found.priority_target_queue
               /\ {cpu.priority_target_queue[i] :
                     i \in (kept + 1)..Len(cpu.priority_target_queue)} = expected
             ELSE IF ret.attack_successful THEN
               /\ cpu.current_cpu_mode = "hunt"
               /\ cpu.priority_target_queue = <<>>
             ELSE
               /\ cpu.current_cpu_mode = found.current_cpu_mode
               /\ cpu.priority_target_queue = found.priority_target_queue
     /\ ret.op = "execute_computer_player_attack" => cpu.attack_history = ret.recorded.attack_history

\* a hit that did not destroy the ship, with a neighbour of the hit that
\* was in the queue already and another that joined it
C30_Witness ==
  /\ ret.op = "execute_computer_player_attack"
  /\ ret.attack_successful /\ ~ret.ship_eliminated
  /\ NeighboursOnBoard(ret.attack_coordinate) \cap Range(ret.recorded.priority_target_queue) # {}
  /\ Len(game_rules.artificial_intelligence_opponent.priority_target_queue)
       > Len(ret.recorded.priority_target_queue)

====
